---------------------------- MODULE Spec2Model ----------------------------
(***************************************************************************)
(* Model of the transcription post-processing of voxly:                    *)
(*   - the text cleaner (app/transcription/cleaning.py, duplicated in      *)
(*     app/transcription/service.py),                                      *)
(*   - the hallucination detector and segment filter                       *)
(*     (app/transcription/whisper.py),                                     *)
(*   - the per-file pipeline transcribe_file._run                          *)
(*     (app/transcription/service.py),                                     *)
(*   - the upload request (app/api/routes.py) and the background task      *)
(*     (app/transcription/background.py), with the status store and the    *)
(*     history store,                                                      *)
(*   - translate_en_to_pt (app/transcription/translate.py),                *)
(*   - split_audio_into_chunks (app/transcription/audio_utils.py) and the  *)
(*     chunked decode that uses it,                                        *)
(*   - the model cache (app/transcription/model.py, service.py).           *)
(* Texts are sequences of one-character strings, so that split, strip,     *)
(* join and the regular expressions are modelled by what they do.          *)
(***************************************************************************)
EXTENDS Integers, Sequences, FiniteSets, TLC

VARIABLES
    entrada,      \* the text handed to limpar_repeticoes in the current round
    texto_limpo,  \* _remover_repeticoes_padroes: texto_limpo
    iteracao,     \* _remover_repeticoes_padroes: iteracao
    removido,     \* _remover_repeticoes_padroes: removido of the last iteration
    pcl,          \* position of the cleaner: "inicio","padroes","sentencas","fim"
    rodada,       \* 1: clean(t), 2: clean(clean(t))
    original,     \* the text drawn at the start
    saida1,       \* limpar_repeticoes(original) once round 1 has ended
    anomalia,     \* detectar_anomalia_repeticao(original)
    apos_padroes  \* what _remover_repeticoes_padroes returned in the current round

VARIABLES
    wres,         \* a decode result handed to the functions of whisper.py
    wpc,          \* "inicio", "loop", "filtrado"
    wloop,        \* detectar_loop(wres)
    wloop_inline, \* tem_loop of transcribe_file._run on wres
    wfiltrado,    \* filtrar_segmentos(wres)
    wfiltrado_inline \* result after the segment filter of transcribe_file._run

VARIABLES
    pc,               \* position in transcribe_file._run
    result,           \* _run: result
    result_passada1,  \* what the first model.transcribe returned
    result_passada2,  \* _run: result_passada2
    tem_loop,         \* _run: tem_loop
    texto_transcrito, \* _run: texto
    language,         \* _run: language
    texto_en,         \* _run: texto_en
    retorno,          \* what _run returned
    chamadas,         \* the calls of model.transcribe so far, in order
    limpezas          \* the texts limpar_repeticoes was called on

VARIABLES
    via,                  \* "rota": transcribe_audio; "background": process_transcription_async
    rpc,                  \* position in the request
    req,                  \* the upload: is its type supported, is its token valid
    status,               \* _status_store[request_id]
    historico,            \* status of the record of request_id in the history store
    arquivos,             \* the files written for request_id
    resposta,             \* what the caller of the request has received
    transcription_result, \* what transcribe_file returned
    transcript_pt,        \* transcript_pt
    translated,           \* translated
    falha,                \* the step that raised, if any
    notificacoes          \* the statuses sent by websocket_manager.notify_status_update

VARIABLES
    tr_text,          \* translate_en_to_pt: text
    tr_pc,            \* position in translate_en_to_pt
    chunks,           \* translate_en_to_pt: chunks
    tr_i,             \* translate_en_to_pt: i of the loop over chunks
    translated_parts, \* translate_en_to_pt: translated_parts
    tr_chamadas,      \* the texts handed to the translator so far, in order
    tr_desfechos,     \* the outcome of each chunk of the loop so far, in order
    tr_result         \* what translate_en_to_pt returned

VARIABLES
    total_duration, \* split_audio_into_chunks: total_duration
    chunk_duration, \* split_audio_into_chunks: chunk_duration
    sp_pc,          \* position in the segmentation and the chunked decode
    sp_i,           \* split_audio_into_chunks: i
    sp_chunks,      \* split_audio_into_chunks: chunks
    disco,          \* the chunk files that exist on disk
    criados,        \* every chunk file that was ever written
    textos_chunk,   \* the text that the decode of each chunk yields
    resultados,     \* the results table of the chunked decode, by chunk index
    ordem,          \* the chunk indexes in the order their decodes completed
    merged,         \* the merged text
    comandos        \* the runs of ffmpeg so far, in order

VARIABLES
    model_cache, \* _model_cache: cache_key -> instance (0: no entry)
    th,          \* each thread: its position, its key, what it loaded, what it returned
    loads,       \* how many times whisper.load_model ran for each key
    proximo,     \* the next instance that whisper.load_model creates
    devolvidos,  \* the pairs <<key, instance>> returned by get_cached_model
    substituido  \* an entry of the cache was overwritten by another instance

VARIABLES
    pg_via,      \* which caller runs the pipeline: the route or the background task
    pg_pc,       \* where the run of the pipeline is
    progressos   \* the status records written for the request, in order

VARIABLES
    roteiro,     \* the status updates of the request in the order of their production
    fl_pos,      \* the next update of the roteiro to produce
    fila,        \* _status_queue
    fl_item,     \* the item that _process_status_queue took and has not sent yet
    recebidos    \* the status_update messages the subscribed client received, in order

VARIABLES
    all_connections,        \* _all_connections
    connections_by_request, \* _connections_by_request: request_id -> set of sockets
    client_state,           \* websocket.client_state of each socket
    ws_pc,                  \* where the send_to_request or broadcast call in progress is
    ws_pendentes,           \* the sockets of the copied set that the loop has not reached
    ws_snapshot,            \* the copied set the call iterates over
    disconnected,           \* the local set "disconnected" of the call
    recebidas,              \* the messages each socket received
    ws_msg,                 \* the number of the message of the call
    desligados              \* the sockets passed to disconnect since their connect

VARIABLES
    hs_arquivo,  \* the records of history.json, in the order of the file
    hs_ultima,   \* for each id, the record of its last add, none after a delete
    hs_log       \* the calls made so far

varsLimpeza == <<entrada, texto_limpo, iteracao, removido, pcl, rodada,
                 original, saida1, anomalia, apos_padroes>>

varsWhisper == <<wres, wpc, wloop, wloop_inline, wfiltrado, wfiltrado_inline>>

varsPipeline == <<pc, result, result_passada1, result_passada2, tem_loop, texto_transcrito,
                  language, texto_en, retorno, chamadas, limpezas>>

varsRequisicao == <<via, rpc, req, status, historico, arquivos, resposta,
                    transcription_result, transcript_pt, translated, falha, notificacoes>>

varsTraducao == <<tr_text, tr_pc, chunks, tr_i, translated_parts, tr_chamadas, tr_desfechos,
                  tr_result>>

varsChunks == <<total_duration, chunk_duration, sp_pc, sp_i, sp_chunks, disco, criados,
                textos_chunk, resultados, ordem, merged, comandos>>

varsCache == <<model_cache, th, loads, proximo, devolvidos, substituido>>

varsProgresso == <<pg_via, pg_pc, progressos>>

\* the services around the pipeline: status, sockets and history
varsFila == <<roteiro, fl_pos, fila, fl_item, recebidos>>

varsManager == <<all_connections, connections_by_request, client_state, ws_pc,
                 ws_pendentes, ws_snapshot, disconnected, recebidas, ws_msg, desligados>>

varsHistorico == <<hs_arquivo, hs_ultima, hs_log>>

varsServicos == <<varsProgresso, varsFila, varsManager, varsHistorico>>

vars == <<varsLimpeza, varsWhisper, varsPipeline, varsRequisicao, varsTraducao,
          varsChunks, varsCache, varsServicos>>

\* the pipeline, its parts and its model cache
varsNucleo == <<varsLimpeza, varsWhisper, varsPipeline, varsRequisicao, varsTraducao,
                varsChunks, varsCache>>

\* what the actions of the cleaner leave alone
foraDaLimpeza == <<varsWhisper, varsPipeline, varsRequisicao, varsTraducao, varsChunks,
                   varsCache, varsServicos>>

\* what the actions on whisper.py leave alone
foraDoWhisper == <<varsLimpeza, varsPipeline, varsRequisicao, varsTraducao, varsChunks,
                   varsCache, varsServicos>>

\* what the actions of transcribe_file leave alone
foraDoPipeline == <<varsLimpeza, varsWhisper, varsRequisicao, varsTraducao, varsChunks,
                    varsCache, varsServicos>>

\* what the actions of the request leave alone
foraDaRequisicao == <<varsLimpeza, varsWhisper, varsPipeline, varsTraducao, varsChunks,
                      varsCache, varsServicos>>

\* what the actions of translate_en_to_pt leave alone
foraDaTraducao == <<varsLimpeza, varsWhisper, varsPipeline, varsRequisicao, varsChunks,
                    varsCache, varsServicos>>

\* what the actions of the segmentation and the chunked decode leave alone
foraDosChunks == <<varsLimpeza, varsWhisper, varsPipeline, varsRequisicao, varsTraducao,
                   varsCache, varsServicos>>

\* what the actions on the model cache leave alone
foraDoCache == <<varsLimpeza, varsWhisper, varsPipeline, varsRequisicao, varsTraducao,
                 varsChunks, varsServicos>>

-----------------------------------------------------------------------------
(* Characters and strings *)

\* str.isspace for the characters of the model
EhEspaco(c) == c \in {" ", "\t"}

\* the class [.!?] of the regular expressions of cleaning.py
EhPontuacao(c) == c \in {".", "!", "?"}

\* str.lower on one character (the upper-case letters of the model's alphabet)
Minuscula(c) ==
    CASE c = "X" -> "x"
      [] c = "Y" -> "y"
      [] c = "A" -> "a"
      [] c = "H" -> "h"
      [] OTHER -> c

\* str.lower
Lower(s) == [i \in 1..Len(s) |-> Minuscula(s[i])]

\* the positions 1..Len(s), in order
Posicoes(s) == [i \in 1..Len(s) |-> i]

\* str.split(): the maximal runs of non-whitespace characters
Split(s) ==
    LET Inicio(i) == ~EhEspaco(s[i]) /\ (i = 1 \/ EhEspaco(s[i - 1]))
        Fim(i) == ~EhEspaco(s[i]) /\ (i = Len(s) \/ EhEspaco(s[i + 1]))
        inicios == SelectSeq(Posicoes(s), Inicio)
        fins == SelectSeq(Posicoes(s), Fim)
    IN [k \in 1..Len(inicios) |-> SubSeq(s, inicios[k], fins[k])]

RECURSIVE JoinDe(_, _, _, _)
\* sep.join(partes[a..b]), by halves
JoinDe(partes, sep, a, b) ==
    IF a > b THEN <<>>
    ELSE IF a = b THEN partes[a]
    ELSE LET m == (a + b) \div 2 IN
         JoinDe(partes, sep, a, m) \o sep \o JoinDe(partes, sep, m + 1, b)

\* sep.join(partes)
Join(partes, sep) == JoinDe(partes, sep, 1, Len(partes))

\* str.strip()
Strip(s) ==
    LET NaoEspaco(i) == ~EhEspaco(s[i])
        cheios == SelectSeq(Posicoes(s), NaoEspaco)
    IN IF cheios = <<>> THEN <<>> ELSE SubSeq(s, cheios[1], cheios[Len(cheios)])

\* re.sub(r"\s+", " ", s): each maximal run of whitespace becomes one space
NormalizaEspacos(s) ==
    LET Fica(i) == ~EhEspaco(s[i]) \/ i = 1 \/ ~EhEspaco(s[i - 1])
        ficam == SelectSeq(Posicoes(s), Fica)
    IN [k \in 1..Len(ficam) |-> IF EhEspaco(s[ficam[k]]) THEN " " ELSE s[ficam[k]]]

\* re.split(r"([.!?]+)", s) without its empty parts: the maximal runs of
\* punctuation and of non-punctuation, in order
ReSplit(s) ==
    LET Inicio(i) == i = 1 \/ EhPontuacao(s[i]) # EhPontuacao(s[i - 1])
        Fim(i) == i = Len(s) \/ EhPontuacao(s[i]) # EhPontuacao(s[i + 1])
        inicios == SelectSeq(Posicoes(s), Inicio)
        fins == SelectSeq(Posicoes(s), Fim)
    IN [k \in 1..Len(inicios) |-> SubSeq(s, inicios[k], fins[k])]

\* re.search(r"[.!?]+", parte)
TemPontuacao(parte) == \E i \in 1..Len(parte) : EhPontuacao(parte[i])

Min(a, b) == IF a <= b THEN a ELSE b


-----------------------------------------------------------------------------
(* cleaning.py: _remover_repeticoes_padroes *)

MaxIteracoes == 15
MaxTamanhoPadrao == 12

\* PALAVRAS_IGNORAR: closed-class words never collapsed as 1-word patterns
PALAVRAS_IGNORAR ==
    { <<"o">>, <<"a">>, <<"e">>, <<"d","e">>, <<"q","u","e">>, <<"e","m">>,
      <<"u","m">>, <<"u","m","a">>, <<"é">>, <<"f","o","i">>, <<"s","e","r">>,
      <<"s","e">>, <<"p","a","r","a">>, <<"c","o","m">>, <<"p","o","r">> }

\* " ".join(palavras[i:i + tam]).lower().strip(), i counted from 0 as in the code
PadraoTexto(palavras, i, tam) ==
    Strip(Lower(Join(SubSeq(palavras, i + 1, i + tam), <<" ">>)))

RECURSIVE ContaRepeticoes(_, _, _, _, _)
\* the inner while: consecutive immediate repetitions of padrao from position j
ContaRepeticoes(palavras, tam, padrao, j, repeticoes) ==
    IF j <= Len(palavras) - tam /\ PadraoTexto(palavras, j, tam) = padrao
    THEN ContaRepeticoes(palavras, tam, padrao, j + tam, repeticoes + 1)
    ELSE repeticoes

\* a mutant of Limite: one more repetition is tolerated
LimiteFrouxo(tam) == IF tam <= 2 THEN 3 ELSE IF tam <= 5 THEN 3 ELSE 2

\* limite: repetitions tolerated for a pattern of tam words
Limite(tam) == IF tam <= 2 THEN 2 ELSE IF tam <= 5 THEN 2 ELSE 1

\* a scan that skips no pattern
NuncaIgnorado(tam, padrao) == FALSE

\* the 1-word patterns that the scan skips
Ignorado(tam, padrao) == tam = 1 /\ padrao \in PALAVRAS_IGNORAR

\* the bound of the scan: while i < len(palavras) - tamanho_padrao * 2
FimVarredura(n, tam) == n - tam * 2

RECURSIVE Varredura(_, _, _)
\* the while over i for one pattern length: the word list after the first
\* collapse found, or <<>> paired with FALSE when none is found
Varredura(palavras, tam, i) ==
    IF ~(i < FimVarredura(Len(palavras), tam))
    THEN [removido |-> FALSE, palavras |-> palavras]
    ELSE LET padrao == PadraoTexto(palavras, i, tam) IN
         IF Ignorado(tam, padrao)
         THEN Varredura(palavras, tam, i + 1)
         ELSE LET repeticoes == ContaRepeticoes(palavras, tam, padrao, i + tam, 1) IN
              IF repeticoes > Limite(tam)
              THEN [removido |-> TRUE,
                    palavras |-> SubSeq(palavras, 1, i + tam)
                                 \o SubSeq(palavras, i + tam * repeticoes + 1, Len(palavras))]
              ELSE Varredura(palavras, tam, i + 1)

RECURSIVE PorTamanho(_, _)
\* the for over tamanho_padrao, from the longest pattern down to 1
PorTamanho(palavras, tam) ==
    IF tam < 1 THEN [removido |-> FALSE, palavras |-> palavras]
    ELSE LET r == Varredura(palavras, tam, 0) IN
         IF r.removido THEN r ELSE PorTamanho(palavras, tam - 1)

\* one iteration of the while of _remover_repeticoes_padroes, from texto_limpo:
\* parar = the loop ends in this iteration, texto = texto_limpo afterwards
Iteracao(texto) ==
    LET palavras == Split(texto) IN
    IF Len(palavras) < 3
    THEN [parar |-> TRUE, removido |-> FALSE, texto |-> texto]
    ELSE LET r == PorTamanho(palavras, Min(MaxTamanhoPadrao, Len(palavras) \div 2))
             novo == IF r.removido THEN Join(r.palavras, <<" ">>) ELSE texto
         IN [parar |-> ~r.removido \/ novo = texto,
             removido |-> r.removido,
             texto |-> novo]

\* a loop condition without the bound on the iterations
SemLimiteDeIteracoes(it) == TRUE

\* while iteracao < max_iteracoes
DentroDoLimite(it) == it < MaxIteracoes

RECURSIVE LacoPadroes(_, _)
LacoPadroes(texto, it) ==
    IF ~DentroDoLimite(it) THEN texto
    ELSE LET r == Iteracao(texto) IN
         IF r.parar THEN r.texto ELSE LacoPadroes(r.texto, it + 1)

\* _remover_repeticoes_padroes(texto)
RemoverRepeticoesPadroes(texto) ==
    IF texto = <<>> THEN texto ELSE LacoPadroes(texto, 0)

-----------------------------------------------------------------------------
(* cleaning.py: sentences *)

MinSentenca == 5

\* a mutant of BufferAposSentenca: the buffer is not reset after a sentence
BufferMantido(buffer) == buffer

\* buffer = "" once a sentence has been closed by its punctuation
BufferAposSentenca(buffer) == <<>>

RECURSIVE ReconstruirAux(_, _, _, _)
ReconstruirAux(partes, k, buffer, acc) ==
    IF k > Len(partes)
    THEN IF buffer # <<>> /\ Len(buffer) > MinSentenca THEN Append(acc, buffer) ELSE acc
    ELSE LET parte == Strip(partes[k]) IN
         IF parte = <<>> THEN ReconstruirAux(partes, k + 1, buffer, acc)
         ELSE IF TemPontuacao(parte)
         THEN IF buffer # <<>>
              THEN LET sentenca == Strip(buffer \o <<" ">> \o parte) IN
                   ReconstruirAux(partes, k + 1, BufferAposSentenca(buffer),
                       IF Len(sentenca) > MinSentenca THEN Append(acc, sentenca) ELSE acc)
              ELSE ReconstruirAux(partes, k + 1, buffer,
                       IF Len(parte) > MinSentenca THEN Append(acc, parte) ELSE acc)
         ELSE ReconstruirAux(partes, k + 1,
                  IF buffer # <<>> THEN Strip(buffer \o <<" ">> \o parte) ELSE parte, acc)

\* _reconstruir_sentencas(texto)
ReconstruirSentencas(texto) == ReconstruirAux(ReSplit(texto), 1, <<>>, <<>>)

\* re.sub(r"\s+", " ", sentenca.lower().strip())
SentencaNormalizada(sentenca) == NormalizaEspacos(Strip(Lower(sentenca)))

\* a mutant of MantemSentenca: one repetition of a sentence is kept
MantemUmaRepeticao(contador) == contador <= 2

\* the sentence is kept while contador_repeticao <= 1
MantemSentenca(contador) == contador <= 1

RECURSIVE RemoverSentencasAux(_, _, _, _, _)
\* ultima = <<FALSE>> stands for None
RemoverSentencasAux(sentencas, k, ultima, contador, acc) ==
    IF k > Len(sentencas) THEN acc
    ELSE LET norm == SentencaNormalizada(sentencas[k]) IN
         IF ultima = <<TRUE, norm>>
         THEN RemoverSentencasAux(sentencas, k + 1, ultima, contador + 1,
                  IF MantemSentenca(contador + 1) THEN Append(acc, sentencas[k]) ELSE acc)
         ELSE RemoverSentencasAux(sentencas, k + 1, <<TRUE, norm>>, 1,
                  Append(acc, sentencas[k]))

\* _remover_repeticoes_sentencas(sentencas)
RemoverRepeticoesSentencas(sentencas) ==
    RemoverSentencasAux(sentencas, 1, <<FALSE>>, 0, <<>>)

\* " ".join(sentencas_limpas)
JuntarSentencas(sentencas) == Join(sentencas, <<" ">>)

\* limpar_repeticoes after the word-pattern collapse: sentences, join, whitespace
EtapaSentencas(texto) ==
    Strip(NormalizaEspacos(
        JuntarSentencas(RemoverRepeticoesSentencas(ReconstruirSentencas(texto)))))

\* limpar_repeticoes(texto)
LimparRepeticoes(texto) ==
    IF texto = <<>> THEN texto
    ELSE EtapaSentencas(RemoverRepeticoesPadroes(texto))


-----------------------------------------------------------------------------
(* cleaning.py: detectar_anomalia_repeticao *)

MinCaracteresAnomalia == 50
MinPalavrasAnomalia == 10
MaxNgramRepetido == 10

\* a mutant of RazaoBaixa: the comparison is inverted
RazaoBaixaInvertida(unicos, total) == 10 * unicos > 3 * total

\* razao_unicos < 0.3, on integers: unicos / total < 3 / 10
RazaoBaixa(unicos, total) == 10 * unicos < 3 * total

\* " ".join(palavras[i:i+n]).lower(), i counted from 0
Ngram(palavras, i, n) == Lower(Join(SubSeq(palavras, i + 1, i + n), <<" ">>))

\* max(ngrams.values()) > 10 for the n-grams of n words
NgramExcessivo(palavras, n) ==
    \E i \in 0..(Len(palavras) - n) :
        Cardinality({ j \in 0..(Len(palavras) - n) :
                        Ngram(palavras, j, n) = Ngram(palavras, i, n) }) > MaxNgramRepetido

\* detectar_anomalia_repeticao(texto)
DetectarAnomaliaRepeticao(texto) ==
    IF texto = <<>> \/ Len(texto) < MinCaracteresAnomalia THEN FALSE
    ELSE LET palavras == Split(texto) IN
         IF Len(palavras) < MinPalavrasAnomalia THEN FALSE
         ELSE LET unicos == Cardinality({ Lower(palavras[i]) : i \in 1..Len(palavras) }) IN
              IF RazaoBaixa(unicos, Len(palavras)) THEN TRUE
              ELSE \E n \in 3..5 : NgramExcessivo(palavras, n)

-----------------------------------------------------------------------------
(* whisper.py: detectar_loop and filtrar_segmentos                         *)
(* A decode result is [text, language, segments]; a segment is             *)
(* [text, no_speech_prob, avg_logprob, compression_ratio], the three       *)
(* statistics in hundredths (0.6 is 60, -0.4 is -40, 2.0 is 200).          *)

\* whisper.py: COMPRESSION_RATIO_THRESHOLD = 2.0
CompressionRatioThresholdW == 200
\* whisper.py, filtrar_segmentos: no_speech_prob < 0.6
NoSpeechFiltroW == 60
\* whisper.py, filtrar_segmentos: avg_logprob > -0.4
LogprobFiltroW == -40
\* whisper.py, filtrar_segmentos: compression_ratio < 2.0
CompressionFiltroW == 200
\* whisper.py, detectar_loop: the uniqueness test needs more than 5 segments
MinSegmentosUnicidade == 5
\* whisper.py, filtrar_segmentos: the repetition test needs more than 3 words
MinPalavrasSegmento == 3

\* the number of segments whose compression_ratio >= limiar
AltaCompressao(segments, limiar) ==
    Cardinality({ k \in 1..Len(segments) : segments[k].compression_ratio >= limiar })

\* percentual_alta_compressao > 0.2
ExcedeFracaoW(altos, total) == 10 * altos > 2 * total

\* len(textos_unicos) / len(textos_segmentos) < 0.5
PoucosUnicos(segments) ==
    2 * Cardinality({ Lower(Strip(segments[k].text)) : k \in 1..Len(segments) })
        < Len(segments)

\* detectar_loop(result)
DetectarLoop(r) ==
    IF Len(r.segments) > 0
       /\ ExcedeFracaoW(AltaCompressao(r.segments, CompressionRatioThresholdW),
                        Len(r.segments))
    THEN TRUE
    ELSE Len(r.segments) > MinSegmentosUnicidade /\ PoucosUnicos(r.segments)

\* palavras_unicas / len(palavras) >= 0.5 for the segments of more than 3 words
SemRepeticaoInterna(seg) ==
    LET palavras == Split(Strip(seg.text)) IN
    IF Len(palavras) > MinPalavrasSegmento
    THEN 2 * Cardinality({ Lower(palavras[i]) : i \in 1..Len(palavras) }) >= Len(palavras)
    ELSE TRUE

\* the test of filtrar_segmentos on one segment
SegmentoValidoW(seg) ==
    /\ seg.no_speech_prob < NoSpeechFiltroW
    /\ seg.avg_logprob > LogprobFiltroW
    /\ seg.compression_ratio < CompressionFiltroW
    /\ SemRepeticaoInterna(seg)

\* " ".join([s.get("text", "").strip() for s in segmentos_validos])
TextoDosSegmentos(segmentos_validos) ==
    Join([k \in 1..Len(segmentos_validos) |-> Strip(segmentos_validos[k].text)], <<" ">>)

\* "if segmentos_validos: result["text"] = texto_filtrado", else the text stays
TextoReconstruido(r, segmentos_validos) ==
    IF segmentos_validos # <<>> THEN TextoDosSegmentos(segmentos_validos) ELSE r.text

\* filtrar_segmentos(result)
FiltrarSegmentos(r) ==
    [r EXCEPT !.text = TextoReconstruido(r, SelectSeq(r.segments, SegmentoValidoW))]

-----------------------------------------------------------------------------
(* service.py: the loop check and the segment filter of transcribe_file._run *)

\* service.py: NO_SPEECH_THRESHOLD = 0.6 (a decode option)
NoSpeechThreshold == 60
\* service.py: LOGPROB_THRESHOLD = -0.5
LogprobThreshold == -50
\* service.py: COMPRESSION_RATIO_THRESHOLD = 2.2
CompressionRatioThreshold == 220
\* service.py, the filter: no_speech_prob < 0.7
NoSpeechFiltro == 70

\* a mutant of ExcedeFracao: the threshold is 40% instead of 30%
ExcedeFracaoAlta(altos, total) == 10 * altos > 4 * total

\* percentual_alta_compressao > 0.3
ExcedeFracao(altos, total) == 10 * altos > 3 * total

\* tem_loop after the first pass
TemLoop(r) ==
    /\ Len(r.segments) > 0
    /\ ExcedeFracao(AltaCompressao(r.segments, CompressionRatioThreshold), Len(r.segments))

\* the test of the filter of _run on one segment
SegmentoValido(seg) ==
    /\ seg.no_speech_prob < NoSpeechFiltro
    /\ seg.avg_logprob > LogprobThreshold
    /\ seg.compression_ratio < CompressionRatioThreshold

\* the filter of _run: result["text"] rebuilt from the valid segments
FiltrarResultado(r) ==
    [r EXCEPT !.text = TextoReconstruido(r, SelectSeq(r.segments, SegmentoValido))]

\* a mutant of DeveRepetir: the second pass runs whatever the loop check said
DeveRepetirSempre(loop) == TRUE

\* "if tem_loop:" the second pass runs only for a flagged first pass
DeveRepetir(loop) == loop

\* a mutant of PreferePassada2: only the lengths are compared
PrefereSoMaisCurta(texto_passada1, texto_passada2) ==
    10 * Len(texto_passada2) < 7 * Len(texto_passada1)

\* len(texto_passada2) < len(texto_passada1) * 0.7
\*     or _detectar_anomalia_repeticao(texto_passada1)
PreferePassada2(texto_passada1, texto_passada2) ==
    \/ 10 * Len(texto_passada2) < 7 * Len(texto_passada1)
    \/ DetectarAnomaliaRepeticao(texto_passada1)

\* language not in {"pt", "pt-BR", "pt-br"}, for a language that is not empty
PrecisaTraduzir(lang) == lang # "" /\ lang \notin {"pt", "pt-BR", "pt-br"}

\* language or "unknown"
IdiomaOuDesconhecido(lang) == IF lang = "" THEN "unknown" ELSE lang

-----------------------------------------------------------------------------
(* cleaning.py: aplicar_limpeza_condicional, and the same steps in _run *)

\* a mutant of AplicarLimpezaCondicional: the text is always cleaned
AplicarLimpezaSempre(texto) == LimparRepeticoes(texto)

\* aplicar_limpeza_condicional(texto)
AplicarLimpezaCondicional(texto) ==
    IF DetectarAnomaliaRepeticao(texto) THEN LimparRepeticoes(texto) ELSE texto

-----------------------------------------------------------------------------
(* The parts of the state a specification does not use *)

SemResultado == [text |-> <<>>, language |-> "", segments |-> <<>>]

LimpezaParada ==
    /\ original = <<>> /\ entrada = <<>> /\ texto_limpo = <<>> /\ apos_padroes = <<>>
    /\ iteracao = 0 /\ removido = FALSE /\ pcl = "parado" /\ rodada = 1
    /\ saida1 = <<>> /\ anomalia = FALSE

WhisperParado ==
    /\ wres = SemResultado /\ wpc = "parado" /\ wloop = FALSE /\ wloop_inline = FALSE
    /\ wfiltrado = SemResultado /\ wfiltrado_inline = SemResultado

PipelineParado ==
    /\ pc = "parado" /\ result = SemResultado /\ result_passada1 = SemResultado
    /\ result_passada2 = SemResultado /\ tem_loop = FALSE /\ texto_transcrito = <<>>
    /\ language = "" /\ texto_en = <<>> /\ retorno = [estado |-> "nenhum"]
    /\ chamadas = <<>> /\ limpezas = {}

SemStatus == [stage |-> "nenhum", progress |-> 0]

SemTranscricao == [text |-> <<>>, language |-> "", text_en |-> <<>>]

RequisicaoParada ==
    /\ via = "nenhuma" /\ rpc = "parado" /\ req = [suportado |-> FALSE, token |-> FALSE]
    /\ status = SemStatus /\ historico = "ausente" /\ arquivos = {}
    /\ resposta = "nenhuma" /\ transcription_result = SemTranscricao
    /\ transcript_pt = <<>> /\ translated = FALSE /\ falha = "nenhuma"
    /\ notificacoes = {}

TraducaoParada ==
    /\ tr_text = <<>> /\ tr_pc = "parado" /\ chunks = <<>> /\ tr_i = 0
    /\ translated_parts = <<>> /\ tr_chamadas = <<>> /\ tr_desfechos = <<>>
    /\ tr_result = <<>>

ChunksParados ==
    /\ total_duration = 0 /\ chunk_duration = 1 /\ sp_pc = "parado" /\ sp_i = 0
    /\ sp_chunks = <<>> /\ disco = {} /\ criados = {} /\ textos_chunk = <<>>
    /\ resultados = <<>> /\ ordem = <<>> /\ merged = <<>> /\ comandos = <<>>

CacheParado ==
    /\ model_cache = <<>> /\ th = <<>> /\ loads = <<>> /\ proximo = 1
    /\ devolvidos = {} /\ substituido = FALSE

\* the parts added to the model after the cleaner, the detector and _run
ProgressoParado == pg_via = "nenhuma" /\ pg_pc = "parado" /\ progressos = <<>>

FilaParada ==
    /\ roteiro = <<>> /\ fl_pos = 0 /\ fila = <<>> /\ recebidos = <<>>
    /\ fl_item = [quem |-> "ninguem", stage |-> "nenhum", progress |-> 0, n |-> 0]

ManagerParado ==
    /\ all_connections = {} /\ connections_by_request = <<>> /\ client_state = <<>>
    /\ ws_pc = "parado" /\ ws_pendentes = {} /\ ws_snapshot = {} /\ disconnected = {}
    /\ recebidas = <<>> /\ ws_msg = 0 /\ desligados = {}

HistoricoParado == hs_arquivo = <<>> /\ hs_ultima = <<>> /\ hs_log = <<>>

ServicosParados == ProgressoParado /\ FilaParada /\ ManagerParado /\ HistoricoParado

DemaisParados ==
    RequisicaoParada /\ TraducaoParada /\ ChunksParados /\ CacheParado /\ ServicosParados

NucleoParado ==
    /\ LimpezaParada /\ WhisperParado /\ PipelineParado /\ RequisicaoParada
    /\ TraducaoParada /\ ChunksParados /\ CacheParado

-----------------------------------------------------------------------------
(* Input texts of the cleaner *)

MaxCaracteres == 6
MaxPalavras == 5
MaxFrases == 4
MaxBlocos == 16
MaxRepetidas == 26
MaxUnicas == 6

\* n copies of one word, separated by single spaces
Repetida(palavra, n) == Join([k \in 1..n |-> palavra], <<" ">>)

Letras == <<"b","c","d","f","g","h","i","j","k","l","m","n","p","q","r","s","t","u","v","w">>

\* every string of at most MaxCaracteres characters over a small alphabet
TextosCurtos == UNION { [1..k -> {"x", "X", " ", "."}] : k \in 0..MaxCaracteres }

Vocabulario == { <<"x">>, <<"X">>, <<"y">>, <<"a">>, <<"z",".">> }

\* every text of at most MaxPalavras words of Vocabulario
TextosDePalavras ==
    { Join(ws, <<" ">>) : ws \in UNION { [1..k -> Vocabulario] : k \in 1..MaxPalavras } }

FrasesModelo ==
    { <<"x","y"," ","x","y",".">>, <<"X","Y"," "," ","x","y",".">>, <<"h","i",".">>, <<"x","x","y","y",".">>, <<"x","x","y","y"," ",".">> }

\* every text of at most MaxFrases sentences of FrasesModelo
TextosDeFrases ==
    { Join(fs, <<" ">>) : fs \in UNION { [1..k -> FrasesModelo] : k \in 1..MaxFrases } }

\* k runs of three copies of k different words
TextosDeBlocos ==
    { Join([b \in 1..k |-> Repetida(<<Letras[b]>>, 3)], <<" ">>) : k \in 1..MaxBlocos }

\* one word repeated, followed by different words
TextosRepetidos ==
    { Join(<<Repetida(w, n)>> \o [u \in 1..k |-> <<Letras[u]>>], <<" ">>) :
        w \in { <<"a">>, <<"x","y">>, <<"w","o","r","d">> }, n \in 1..MaxRepetidas, k \in 0..MaxUnicas }

RAPOSA == <<"t","h","e"," ","q","u","i","c","k"," ","b","r","o","w","n"," ","f","o","x"," ","j","u","m","p","s"," ","o","v","e","r"," ","t","h","e"," ","l","a","z","y"," ","d","o","g">>

\* how many other words stand before and after a doubled pattern, at most
MaxEntorno == 2

\* a pattern of tam different words outside PALAVRAS_IGNORAR, and the same
\* pattern with its first word in upper case
PadraoDePalavras(tam) == <<(<<"x">>)>> \o [k \in 1..(tam - 1) |-> <<Letras[k]>>]
PadraoEmMaiuscula(tam) == <<(<<"X">>)>> \o [k \in 1..(tam - 1) |-> <<Letras[k]>>]

\* a pattern of 6 to 12 words twice in a row, after antes and before depois
\* other words, all different
PadraoDuplo(tam, antes, depois) ==
    Join([k \in 1..antes |-> <<Letras[12 + k]>>]
         \o PadraoDePalavras(tam) \o PadraoEmMaiuscula(tam)
         \o [k \in 1..depois |-> <<Letras[16 + k]>>], <<" ">>)

TextosDePadraoDuplo ==
    { PadraoDuplo(tam, antes, depois) :
        tam \in 6..MaxTamanhoPadrao, antes \in 0..MaxEntorno, depois \in 0..MaxEntorno }

\* the word "de" of PALAVRAS_IGNORAR n times in a row, after antes and
\* before depois other words, all different
CorridaIgnorada(n, antes, depois) ==
    Join([k \in 1..antes |-> <<Letras[12 + k]>>]
         \o [k \in 1..n |-> <<"d", "e">>]
         \o [k \in 1..depois |-> <<Letras[16 + k]>>], <<" ">>)

TextosDeIgnoradas ==
    { CorridaIgnorada(n, antes, depois) :
        n \in 1..MaxRepetidas, antes \in 0..MaxEntorno, depois \in 0..MaxEntorno }

\* eleven one-word sentences of three kinds in which no block of sentences
\* stands twice in a row: few different words, and nothing to collapse
SEM_QUADRADOS ==
    LET a == <<"x","x","y","y",".">>
        b == <<"h","i","h","i",".">>
        c == <<"w","x","y","z",".">>
    IN Join(<<a, b, a, c, a, b, c, a, c, b, a>>, <<" ">>)

Entradas ==
    TextosCurtos \cup TextosDePalavras \cup TextosDeFrases \cup TextosDeBlocos
    \cup TextosRepetidos \cup TextosDePadraoDuplo \cup TextosDeIgnoradas
    \cup { RAPOSA, SEM_QUADRADOS }

-----------------------------------------------------------------------------
(* The cleaner applied to a drawn text, then to its own result *)

InitLimpeza ==
    /\ original \in Entradas
    /\ entrada = original
    /\ texto_limpo = original
    /\ apos_padroes = <<>>
    /\ iteracao = 0
    /\ removido = FALSE
    /\ pcl = "inicio"
    /\ rodada = 1
    /\ saida1 = <<>>
    /\ anomalia = FALSE
    /\ WhisperParado
    /\ PipelineParado
    /\ DemaisParados

\* detectar_anomalia_repeticao(original)
Detectar ==
    /\ pcl = "inicio"
    /\ anomalia' = DetectarAnomaliaRepeticao(original)
    /\ pcl' = "limpar"
    /\ UNCHANGED <<entrada, texto_limpo, apos_padroes, iteracao, removido, rodada,
                   original, saida1>>
    /\ UNCHANGED foraDaLimpeza

\* limpar_repeticoes(entrada): "if not texto: return texto", else the loop starts
Entrar ==
    /\ pcl = "limpar"
    /\ texto_limpo' = entrada
    /\ iteracao' = 0
    /\ removido' = FALSE
    /\ IF entrada = <<>>
       THEN /\ pcl' = "fim"
            /\ apos_padroes' = entrada
            /\ saida1' = IF rodada = 1 THEN entrada ELSE saida1
       ELSE /\ pcl' = "padroes"
            /\ UNCHANGED <<apos_padroes, saida1>>
    /\ UNCHANGED <<entrada, rodada, original, anomalia>>
    /\ UNCHANGED foraDaLimpeza

\* one iteration of "while iteracao < max_iteracoes"
IteracaoPadroes ==
    /\ pcl = "padroes"
    /\ DentroDoLimite(iteracao)
    /\ LET r == Iteracao(texto_limpo) IN
        /\ texto_limpo' = r.texto
        /\ removido' = r.removido
        /\ IF r.parar
           THEN /\ pcl' = "sentencas"
                /\ apos_padroes' = r.texto
                /\ UNCHANGED iteracao
           ELSE /\ iteracao' = iteracao + 1
                /\ UNCHANGED <<pcl, apos_padroes>>
    /\ UNCHANGED <<entrada, rodada, original, saida1, anomalia>>
    /\ UNCHANGED foraDaLimpeza

\* the loop ends because iteracao reached max_iteracoes
SairDoLaco ==
    /\ pcl = "padroes"
    /\ ~DentroDoLimite(iteracao)
    /\ pcl' = "sentencas"
    /\ apos_padroes' = texto_limpo
    /\ UNCHANGED <<entrada, texto_limpo, iteracao, removido, rodada, original,
                   saida1, anomalia>>
    /\ UNCHANGED foraDaLimpeza

\* the rest of limpar_repeticoes: sentences, join, whitespace; return
Sentencas ==
    /\ pcl = "sentencas"
    /\ texto_limpo' = EtapaSentencas(texto_limpo)
    /\ pcl' = "fim"
    /\ saida1' = IF rodada = 1 THEN texto_limpo' ELSE saida1
    /\ UNCHANGED <<entrada, apos_padroes, iteracao, removido, rodada, original, anomalia>>
    /\ UNCHANGED foraDaLimpeza

\* limpar_repeticoes applied to its own result
Reaplicar ==
    /\ pcl = "fim"
    /\ rodada = 1
    /\ rodada' = 2
    /\ entrada' = texto_limpo
    /\ pcl' = "limpar"
    /\ UNCHANGED <<texto_limpo, apos_padroes, iteracao, removido, original, saida1, anomalia>>
    /\ UNCHANGED foraDaLimpeza

NextLimpeza ==
    \/ Detectar
    \/ Entrar
    \/ IteracaoPadroes
    \/ SairDoLaco
    \/ Sentencas
    \/ Reaplicar

SpecLimpeza == InitLimpeza /\ [][NextLimpeza]_vars


-----------------------------------------------------------------------------
(* Properties of the cleaner and of the repetition detector *)

\* the lower-cased words of a text
PalavrasDe(texto) == Lower(Join(Split(texto), <<" ">>))

\* w occurs three times in a row among the words, compared case-insensitively
TemTrinca(palavras, w) ==
    \E i \in 1..(Len(palavras) - 2) : \A j \in i..(i + 2) : Lower(palavras[j]) = w

\* the words repeated consecutively three times or more in a text
PalavrasComTrinca(texto) ==
    LET palavras == Split(texto) IN
    { w \in { Lower(palavras[i]) : i \in 1..Len(palavras) } : TemTrinca(palavras, w) }

\* the first clean of the drawn text has returned
Limpo1 == pcl = "fim" /\ rodada = 1

\* the clean of the cleaned text has returned
Limpo2 == pcl = "fim" /\ rodada = 2

FrasesDe(texto) ==
    LET partes == ReSplit(texto)
        Pontua(k) == TemPontuacao(partes[k])
        pontos == SelectSeq(Posicoes(partes), Pontua)
    IN [n \in 1..Len(pontos) |->
          <<IF pontos[n] > 1 THEN SentencaNormalizada(partes[pontos[n] - 1]) ELSE <<>>,
            partes[pontos[n]]>>]

\* the sentences with some text that occur three times in a row
FrasesComTrinca(texto) ==
    LET fs == FrasesDe(texto) IN
    { f \in { fs[i] : i \in 1..Len(fs) } :
        /\ f[1] # <<>>
        /\ \E i \in 1..(Len(fs) - 2) : \A j \in i..(i + 2) : fs[j] = f }

Ocorre(fs, f) == \E i \in 1..Len(fs) : fs[i] = f

DuasSeguidas(fs, f) == \E i \in 1..(Len(fs) - 1) : fs[i] = f /\ fs[i + 1] = f

\* the length of a sentence as _reconstruir_sentencas builds it, at least
ComprimentoFrase(f) == Len(f[1]) + 1 + Len(f[2])

\* C2 as stated: a sentence that occurs three times or more in a row is in
\* clean(text) once for that run: not zero times, not twice
C2_Original ==
    Limpo1 => \A f \in FrasesComTrinca(original) :
                  /\ Ocorre(FrasesDe(texto_limpo), f)
                  /\ ~DuasSeguidas(FrasesDe(texto_limpo), f)

\* C2 amended: such a sentence is never twice in a row in clean(text), and it is
\* there once whenever the word-pattern collapse left it in the text and it is
\* longer than 5 characters
C2_FirstOfRunSurvives ==
    Limpo1 => \A f \in FrasesComTrinca(original) :
                  /\ ~DuasSeguidas(FrasesDe(texto_limpo), f)
                  /\ (Ocorre(FrasesDe(apos_padroes), f) /\ ComprimentoFrase(f) > MinSentenca)
                        => Ocorre(FrasesDe(texto_limpo), f)

\* C2 witness: a sentence repeated three times reached the sentence stage twice
\* in a row or more, and is once in the result
C2_Witness ==
    /\ Limpo1
    /\ \E f \in FrasesComTrinca(original) :
          /\ DuasSeguidas(FrasesDe(apos_padroes), f)
          /\ Ocorre(FrasesDe(texto_limpo), f)
          /\ ~DuasSeguidas(FrasesDe(texto_limpo), f)

\* C3: cleaning a cleaned text never makes it longer
C3_SecondCleanNotLonger == Limpo2 => Len(texto_limpo) <= Len(saida1)

\* C3 witness: the second clean changed a non-empty cleaned text
C3_Witness == Limpo2 /\ saida1 # <<>> /\ texto_limpo # saida1

\* C4 as stated: a text of fewer than 3 words is returned unchanged
C4_Original == (Limpo1 /\ Len(Split(original)) < 3) => texto_limpo = original

\* the ratio of distinct lower-cased words to words is below 0.3
RazaoUnicosBaixa(texto) ==
    LET palavras == Split(texto) IN
    /\ Len(palavras) > 0
    /\ 10 * Cardinality({ Lower(palavras[i]) : i \in 1..Len(palavras) }) < 3 * Len(palavras)

DEZ_A == Repetida(<<"a">>, 10)

-----------------------------------------------------------------------------
(* The functions of whisper.py and the inline checks of _run applied to a   *)
(* drawn decode result                                                      *)

MaxSegmentosW == 6

Segmento(t, nsp, lp, cr) ==
    [text |-> t, no_speech_prob |-> nsp, avg_logprob |-> lp, compression_ratio |-> cr]

SEG_OK == Segmento(<<" ","o","k">>, 10, -30, 100)
\* the same text in another case, no_speech_prob between the two filters
SEG_OK2 == Segmento(<<"O","K"," ">>, 65, -30, 100)
\* avg_logprob and compression_ratio between the thresholds of the two files
SEG_MEIO == Segmento(<<"n","o">>, 10, -45, 210)
\* compression_ratio 3.0
SEG_LOOP == Segmento(<<"w","o","r","d"," ","w","o","r","d">>, 10, -30, 300)
\* four words, one distinct, compression_ratio 1.0
SEG_REP == Segmento(<<"g","o"," ","g","o"," ","g","o"," ","g","o">>, 10, -30, 100)
\* silence
SEG_SILENCIO == Segmento(<<"u","h">>, 80, -80, 100)

SegmentosW == { SEG_OK, SEG_OK2, SEG_MEIO, SEG_LOOP, SEG_REP }

TextosW == { <<>>, <<" ","h","e","l","l","o"," ","w","o","r","l","d">> }

ResultadosW ==
    { [text |-> t, language |-> "pt", segments |-> ss] :
        t \in TextosW,
        ss \in UNION { [1..k -> SegmentosW] : k \in 0..MaxSegmentosW } }

InitWhisper ==
    /\ wres \in ResultadosW
    /\ wpc = "inicio"
    /\ wloop = FALSE
    /\ wloop_inline = FALSE
    /\ wfiltrado = SemResultado
    /\ wfiltrado_inline = SemResultado
    /\ LimpezaParada
    /\ PipelineParado
    /\ DemaisParados

\* detectar_loop(wres), and the loop check of _run on the same result
VerificarLoop ==
    /\ wpc = "inicio"
    /\ wloop' = DetectarLoop(wres)
    /\ wloop_inline' = TemLoop(wres)
    /\ wpc' = "loop"
    /\ UNCHANGED <<wres, wfiltrado, wfiltrado_inline>>
    /\ UNCHANGED foraDoWhisper

\* filtrar_segmentos(wres), and the filter of _run on the same result
Filtrar ==
    /\ wpc = "loop"
    /\ wfiltrado' = FiltrarSegmentos(wres)
    /\ wfiltrado_inline' = FiltrarResultado(wres)
    /\ wpc' = "filtrado"
    /\ UNCHANGED <<wres, wloop, wloop_inline>>
    /\ UNCHANGED foraDoWhisper

NextWhisper ==
    \/ VerificarLoop
    \/ Filtrar

SpecWhisper == InitWhisper /\ [][NextWhisper]_vars

\* the segments with compression_ratio = cr
ComCompressao(segments, cr) ==
    Cardinality({ k \in 1..Len(segments) : segments[k].compression_ratio = cr })

\* at least 40% of the segments, and one at least, have compression_ratio 3.0
QuarentaPorCentoAltos(r) ==
    /\ Len(r.segments) > 0
    /\ 10 * ComCompressao(r.segments, 300) >= 4 * Len(r.segments)

\* every segment has compression_ratio 1.0
TodosBaixos(r) == \A k \in 1..Len(r.segments) : r.segments[k].compression_ratio = 100

\* C7 as stated: 40% of segments at compression_ratio 3.0 flag a loop, and a
\* result whose segments are all at 1.0 flags none, whatever the segments
C7_Original ==
    wpc # "inicio" =>
        /\ QuarentaPorCentoAltos(wres) => (wloop /\ wloop_inline)
        /\ TodosBaixos(wres) => (~wloop /\ ~wloop_inline)

\* C7 amended: with every segment at 1.0 the inline check of _run flags no loop,
\* and detectar_loop flags none when there are at most 5 segments or at least
\* half of the segment texts are distinct
C7_LoopSignature ==
    wpc # "inicio" =>
        /\ QuarentaPorCentoAltos(wres) => (wloop /\ wloop_inline)
        /\ TodosBaixos(wres) => ~wloop_inline
        /\ (TodosBaixos(wres) /\ (Len(wres.segments) <= 5 \/ ~PoucosUnicos(wres.segments)))
              => ~wloop
        /\ (TodosBaixos(wres) /\ Len(wres.segments) > 5 /\ PoucosUnicos(wres.segments))
              => wloop

\* C7 witness: exactly 2 of 5 segments at 3.0 were flagged by both checks
C7_Witness ==
    /\ wpc # "inicio" /\ wloop /\ wloop_inline
    /\ Len(wres.segments) = 5 /\ ComCompressao(wres.segments, 300) = 2

\* C10 as stated: after the filter the text is the join of the stripped texts of
\* the surviving segments, also when none survives
C10_Original ==
    wpc = "filtrado" =>
        /\ wfiltrado.text = TextoDosSegmentos(SelectSeq(wres.segments, SegmentoValidoW))
        /\ wfiltrado_inline.text = TextoDosSegmentos(SelectSeq(wres.segments, SegmentoValido))


-----------------------------------------------------------------------------
(* transcribe_file._run: one non-chunked file                               *)

MaxSegmentos == 2

\* six words, one distinct: two of these make a text that the detector flags
SEG_PALAVRAS == Segmento(Repetida(<<"w","o","r","d">>, 6), 10, -30, 100)

Segmentos == { SEG_OK, SEG_PALAVRAS, SEG_LOOP, SEG_SILENCIO }

CINCO_WORD == Repetida(<<"w","o","r","d">>, 5)
HELLO_WORLD == <<"h","e","l","l","o"," ","w","o","r","l","d">>

\* the texts a decode returns: none, " hello world", five and twelve "word"
TextosDecodificados ==
    { <<>>, <<" ">> \o HELLO_WORLD, CINCO_WORD, Repetida(<<"w","o","r","d">>, 12) }

Idiomas == { "pt", "en" }

\* what model.transcribe may return
Resultados ==
    { [text |-> t, language |-> l, segments |-> ss] :
        t \in TextosDecodificados, l \in Idiomas,
        ss \in UNION { [1..k -> Segmentos] : k \in 0..MaxSegmentos } }

Chamada(tarefa, contexto, falhou) ==
    [tarefa |-> tarefa, contexto |-> contexto, falhou |-> falhou]

InitPipeline ==
    /\ pc = "passada1"
    /\ result = SemResultado
    /\ result_passada1 = SemResultado
    /\ result_passada2 = SemResultado
    /\ tem_loop = FALSE
    /\ texto_transcrito = <<>>
    /\ language = ""
    /\ texto_en = <<>>
    /\ retorno = [estado |-> "nenhum"]
    /\ chamadas = <<>>
    /\ limpezas = {}
    /\ LimpezaParada
    /\ WhisperParado
    /\ DemaisParados

\* result = model.transcribe(str(path), **options_passada1)
Passada1 ==
    /\ pc = "passada1"
    /\ \E r \in Resultados :
        /\ result' = r
        /\ result_passada1' = r
    /\ chamadas' = Append(chamadas, Chamada("transcribe", TRUE, FALSE))
    /\ pc' = "loop_check"
    /\ UNCHANGED <<result_passada2, tem_loop, texto_transcrito, language, texto_en,
                   retorno, limpezas>>
    /\ UNCHANGED foraDoPipeline

\* the first model.transcribe raises: _run ends with the exception
Passada1Falha ==
    /\ pc = "passada1"
    /\ chamadas' = Append(chamadas, Chamada("transcribe", TRUE, TRUE))
    /\ pc' = "erro"
    /\ retorno' = [estado |-> "erro"]
    /\ UNCHANGED <<result, result_passada1, result_passada2, tem_loop, texto_transcrito,
                   language, texto_en, limpezas>>
    /\ UNCHANGED foraDoPipeline

\* the loop check on the first pass, and "if tem_loop:"
LoopCheck ==
    /\ pc = "loop_check"
    /\ tem_loop' = TemLoop(result)
    /\ pc' = IF DeveRepetir(tem_loop') THEN "passada2" ELSE "filtrar"
    /\ UNCHANGED <<result, result_passada1, result_passada2, texto_transcrito, language,
                   texto_en, retorno, chamadas, limpezas>>
    /\ UNCHANGED foraDoPipeline

\* result_passada2 = model.transcribe(str(path), **options_passada2)
Passada2 ==
    /\ pc = "passada2"
    /\ \E r \in Resultados : result_passada2' = r
    /\ chamadas' = Append(chamadas, Chamada("transcribe", FALSE, FALSE))
    /\ pc' = "reconciliar"
    /\ UNCHANGED <<result, result_passada1, tem_loop, texto_transcrito, language,
                   texto_en, retorno, limpezas>>
    /\ UNCHANGED foraDoPipeline

\* the second model.transcribe raises: _run ends with the exception
Passada2Falha ==
    /\ pc = "passada2"
    /\ chamadas' = Append(chamadas, Chamada("transcribe", FALSE, TRUE))
    /\ pc' = "erro"
    /\ retorno' = [estado |-> "erro"]
    /\ UNCHANGED <<result, result_passada1, result_passada2, tem_loop, texto_transcrito,
                   language, texto_en, limpezas>>
    /\ UNCHANGED foraDoPipeline

\* the choice between the two passes
Reconciliar ==
    /\ pc = "reconciliar"
    /\ result' = IF PreferePassada2(Strip(result.text), Strip(result_passada2.text))
                 THEN result_passada2
                 ELSE result
    /\ pc' = "filtrar"
    /\ UNCHANGED <<result_passada1, result_passada2, tem_loop, texto_transcrito, language,
                   texto_en, retorno, chamadas, limpezas>>
    /\ UNCHANGED foraDoPipeline

\* the segment filter, then texto and language are read from the result
FiltrarPassada ==
    /\ pc = "filtrar"
    /\ result' = FiltrarResultado(result)
    /\ texto_transcrito' = Strip(result'.text)
    /\ language' = result'.language
    /\ pc' = IF PrecisaTraduzir(language') THEN "traduzir" ELSE "vazio"
    /\ UNCHANGED <<result_passada1, result_passada2, tem_loop, texto_en, retorno,
                   chamadas, limpezas>>
    /\ UNCHANGED foraDoPipeline

\* translate_result = model.transcribe(str(path), task="translate", **options_traducao)
\* with options_passada2 if tem_loop else options_passada1
Traduzir ==
    /\ pc = "traduzir"
    /\ \E t \in TextosDecodificados : texto_en' = Strip(t)
    /\ chamadas' = Append(chamadas, Chamada("translate", ~tem_loop, FALSE))
    /\ pc' = "vazio"
    /\ UNCHANGED <<result, result_passada1, result_passada2, tem_loop, texto_transcrito,
                   language, retorno, limpezas>>
    /\ UNCHANGED foraDoPipeline

\* the translating model.transcribe raises: _run ends with the exception
TraduzirFalha ==
    /\ pc = "traduzir"
    /\ chamadas' = Append(chamadas, Chamada("translate", ~tem_loop, TRUE))
    /\ pc' = "erro"
    /\ retorno' = [estado |-> "erro"]
    /\ UNCHANGED <<result, result_passada1, result_passada2, tem_loop, texto_transcrito,
                   language, texto_en, limpezas>>
    /\ UNCHANGED foraDoPipeline

\* "if not texto:" the empty transcript is returned at once, text_en None
RetornarVazio ==
    /\ pc = "vazio"
    /\ texto_transcrito = <<>>
    /\ retorno' = [estado |-> "ok", text |-> <<>>,
                   language |-> IdiomaOuDesconhecido(language), text_en |-> <<>>]
    /\ pc' = "fim"
    /\ UNCHANGED <<result, result_passada1, result_passada2, tem_loop, texto_transcrito,
                   language, texto_en, chamadas, limpezas>>
    /\ UNCHANGED foraDoPipeline

\* the conditional cleaning of texto and of texto_en, and the return
LimparERetornar ==
    /\ pc = "vazio"
    /\ texto_transcrito # <<>>
    /\ retorno' = [estado |-> "ok",
                   text |-> AplicarLimpezaCondicional(texto_transcrito),
                   language |-> IdiomaOuDesconhecido(language),
                   text_en |-> IF texto_en # <<>>
                               THEN AplicarLimpezaCondicional(texto_en)
                               ELSE <<>>]
    /\ limpezas' = limpezas \cup { t \in {texto_transcrito, texto_en} :
                                     t # <<>> /\ DetectarAnomaliaRepeticao(t) }
    /\ pc' = "fim"
    /\ UNCHANGED <<result, result_passada1, result_passada2, tem_loop, texto_transcrito,
                   language, texto_en, chamadas>>
    /\ UNCHANGED foraDoPipeline

Next ==
    \/ Passada1
    \/ Passada1Falha
    \/ LoopCheck
    \/ Passada2
    \/ Passada2Falha
    \/ Reconciliar
    \/ FiltrarPassada
    \/ Traduzir
    \/ TraduzirFalha
    \/ RetornarVazio
    \/ LimparERetornar

Spec == InitPipeline /\ [][Next]_vars

-----------------------------------------------------------------------------
(* Properties of transcribe_file._run *)

\* the two passes have both been decoded and one of them has been chosen
Reconciliado == pc = "filtrar" /\ Len(chamadas) = 2

TextoPassada1 == Strip(result_passada1.text)
TextoPassada2 == Strip(result_passada2.text)

\* C6: after a two-pass decode, the result kept is the one of the second pass
\* exactly when the text of the first pass is flagged by the repetition
\* detector or the text of the second pass is shorter than 70% of the text of
\* the first, and the one of the first pass otherwise; for the first text
\* "word word word word word" and the second text "hello world" the second
\* pass is kept.
C6_Reconciliation ==
    Reconciliado =>
        /\ ( DetectarAnomaliaRepeticao(TextoPassada1)
               \/ 10 * Len(TextoPassada2) < 7 * Len(TextoPassada1) )
             => result = result_passada2
        /\ ( ~DetectarAnomaliaRepeticao(TextoPassada1)
               /\ 10 * Len(TextoPassada2) >= 7 * Len(TextoPassada1) )
             => result = result_passada1
        /\ (TextoPassada1 = CINCO_WORD /\ TextoPassada2 = HELLO_WORLD)
             => result = result_passada2

C6_Witness ==
    /\ Reconciliado
    /\ TextoPassada1 = CINCO_WORD
    /\ TextoPassada2 = HELLO_WORLD
    /\ result = result_passada2
    /\ result_passada2 # result_passada1

Retornou == pc = "fim" /\ retorno.estado = "ok"

C9_SecondPassOnlyWhenFlagged ==
    /\ \A i \in 1..Len(chamadas) :
         (i > 1 /\ chamadas[i].tarefa = "transcribe") =>
            /\ i = 2
            /\ ~chamadas[i].contexto
            /\ chamadas[1].tarefa = "transcribe"
            /\ chamadas[1].contexto
            /\ ~chamadas[1].falhou
            /\ tem_loop
    /\ (Len(chamadas) >= 1 /\ pc \notin {"passada1", "loop_check"} /\ ~tem_loop) =>
         Cardinality({ i \in 1..Len(chamadas) : chamadas[i].tarefa = "transcribe" }) = 1
    /\ \A i \in 1..Len(chamadas) : chamadas[i].falhou => (i = Len(chamadas) /\ pc = "erro")
    /\ pc = "erro" => chamadas[Len(chamadas)].falhou

C9_Witness ==
    /\ Len(chamadas) >= 2
    /\ chamadas[2].tarefa = "transcribe"
    /\ ~chamadas[2].contexto
    /\ ~chamadas[2].falhou
    /\ tem_loop
    /\ pc = "fim"

-----------------------------------------------------------------------------
(* The upload request: transcribe_audio (routes.py), and the background     *)
(* task process_transcription_async (background.py)                         *)

\* the fields of the dataclass TranscriptionRecord
CamposDoRegistro ==
    { "id", "filename", "created_at", "audio_path", "transcript_path", "markdown_path",
      "transcript_preview", "status" }

\* the keywords that transcribe_audio and process_transcription_async pass to
\* TranscriptionRecord(...)
CamposPassados ==
    { "id", "filename", "created_at", "audio_path", "transcript_path", "markdown_path",
      "transcript_preview", "status", "language_detected", "translated",
      "transcript_original_path" }

\* the generated __init__ of a dataclass raises TypeError on a keyword that is
\* no field
RegistroAceito(campos) == campos \subseteq CamposDoRegistro

\* a mutant of StatusDeErro: the progress reached is kept
StatusDeErroComProgresso(atual) == [stage |-> "error", progress |-> atual.progress]

\* set_status(request_id, "error", 0, ...)
StatusDeErro(atual) == [stage |-> "error", progress |-> 0]

\* (transcription_result.get("language") or "unknown").lower()
IdiomaDetectado(lang) ==
    LET l == IdiomaOuDesconhecido(lang) IN IF l = "pt-BR" THEN "pt-br" ELSE l

\* language_detected not in {"pt", "pt-br"}
ForaDoPortugues(lang) == IdiomaDetectado(lang) \notin {"pt", "pt-br"}

\* text_to_translate = transcript_en if transcript_en else transcript_text
TextoATraduzir(r) == IF r.text_en # <<>> THEN r.text_en ELSE r.text

\* "if not transcript_pt or transcript_pt.strip() == text_to_translate.strip()"
TraducaoRecusada(pt, text_to_translate) ==
    pt = <<>> \/ Strip(pt) = Strip(text_to_translate)

\* the except branch of process_transcription_async marks the record of the
\* request, if there is one; transcribe_audio does not touch the history
HistoricoAposErro(v, h) == IF v = "background" /\ h # "ausente" THEN "error" ELSE h

\* transcribe_audio re-raises (the caller gets a 500); the background task
\* has no caller waiting
RespostaAposErro(v, r) == IF v = "rota" THEN "500" ELSE r

\* websocket_manager.notify_status_update(request_id, "error", ...)
NotificacoesAposErro(v, n) == IF v = "background" THEN n \cup {"error"} ELSE n

OLA == <<"o","l","a">>
HI == <<"h","i">>
SALUT == <<"s","a","l","u","t">>

\* what transcribe_file returns: text_en is None for an empty transcript and
\* for a language that needs no translation
ResultadosTranscricao ==
    { r \in [text : {<<>>, OLA, SALUT}, language : {"pt", "pt-BR", "en", "unknown"},
             text_en : {<<>>, HI}] :
        r.text_en # <<>> => (r.text # <<>> /\ r.language = "en") }

\* what translate_en_to_pt returns for a text that is not empty: a translation,
\* or the text itself
TraducoesPossiveis(t) == { OLA, t, <<" ">> \o t }

InitRequisicao ==
    /\ via \in {"rota", "background"}
    /\ rpc = "inicio"
    /\ req \in [suportado : BOOLEAN, token : BOOLEAN]
    /\ via = "background" => (req.suportado /\ req.token)
    /\ status = SemStatus
    /\ historico \in {"ausente", "processing"}
    /\ via = "rota" => historico = "ausente"
    /\ arquivos = IF via = "background" THEN {"upload"} ELSE {}
    /\ resposta = "nenhuma"
    /\ transcription_result = SemTranscricao
    /\ transcript_pt = <<>>
    /\ translated = FALSE
    /\ falha = "nenhuma"
    /\ notificacoes = {}
    /\ LimpezaParada /\ WhisperParado /\ PipelineParado
    /\ TraducaoParada /\ ChunksParados /\ CacheParado /\ ServicosParados

\* the except branch of transcribe_audio and of process_transcription_async
Erro(passo) ==
    /\ falha' = passo
    /\ status' = StatusDeErro(status)
    /\ historico' = HistoricoAposErro(via, historico)
    /\ resposta' = RespostaAposErro(via, resposta)
    /\ notificacoes' = NotificacoesAposErro(via, notificacoes)
    /\ rpc' = "fim"

\* verify_token, the check of the type of the upload, and the first status
Receber ==
    /\ via = "rota" /\ rpc = "inicio"
    /\ IF ~req.token
       THEN resposta' = "401" /\ rpc' = "fim" /\ UNCHANGED status
       ELSE IF ~req.suportado
            THEN resposta' = "400" /\ rpc' = "fim" /\ UNCHANGED status
            ELSE /\ status' = [stage |-> "uploading", progress |-> 10]
                 /\ rpc' = "upload"
                 /\ UNCHANGED resposta
    /\ UNCHANGED <<via, req, historico, arquivos, transcription_result, transcript_pt,
                   translated, falha, notificacoes>>
    /\ UNCHANGED foraDaRequisicao

\* audio_path = await save_upload(...)
SalvarUpload ==
    /\ via = "rota" /\ rpc = "upload"
    /\ arquivos' = arquivos \cup {"upload"}
    /\ status' = [stage |-> "transcribing", progress |-> 20]
    /\ rpc' = "transcrever"
    /\ UNCHANGED <<via, req, historico, resposta, transcription_result, transcript_pt,
                   translated, falha, notificacoes>>
    /\ UNCHANGED foraDaRequisicao

\* save_upload raises
SalvarUploadFalha ==
    /\ via = "rota" /\ rpc = "upload"
    /\ Erro("upload")
    /\ UNCHANGED <<via, req, arquivos, transcription_result, transcript_pt, translated>>
    /\ UNCHANGED foraDaRequisicao

\* process_transcription_async up to the call of transcribe_file
IniciarBackground ==
    /\ via = "background" /\ rpc = "inicio"
    /\ notificacoes' = notificacoes \cup {"processing"}
    /\ status' = [stage |-> "transcribing", progress |-> 20]
    /\ rpc' = "transcrever"
    /\ UNCHANGED <<via, req, historico, arquivos, resposta, transcription_result,
                   transcript_pt, translated, falha>>
    /\ UNCHANGED foraDaRequisicao

\* transcribe_file returns; the decision to translate
Transcrever ==
    /\ rpc = "transcrever"
    /\ \E r \in ResultadosTranscricao :
        /\ transcription_result' = r
        /\ transcript_pt' = r.text
        /\ translated' = ForaDoPortugues(r.language)
        /\ IF ForaDoPortugues(r.language) /\ TextoATraduzir(r) # <<>>
           THEN /\ status' = [stage |-> "transcribing", progress |-> 62]
                /\ rpc' = "traduzir"
           ELSE /\ status' = [stage |-> "transcribing", progress |-> 60]
                /\ rpc' = "topicos"
    /\ notificacoes' = IF via = "background" THEN notificacoes \cup {"processing"}
                       ELSE notificacoes
    /\ UNCHANGED <<via, req, historico, arquivos, resposta, falha>>
    /\ UNCHANGED foraDaRequisicao

\* transcribe_file raises: the speech model raised in _run
TranscreverFalha ==
    /\ rpc = "transcrever"
    /\ Erro("decode")
    /\ UNCHANGED <<via, req, arquivos, transcription_result, transcript_pt, translated>>
    /\ UNCHANGED foraDaRequisicao

\* transcript_pt = translate_en_to_pt(text_to_translate)
TraduzirPt ==
    /\ rpc = "traduzir"
    /\ \E t \in TraducoesPossiveis(TextoATraduzir(transcription_result)) :
        IF TraducaoRecusada(t, TextoATraduzir(transcription_result))
        THEN transcript_pt' = transcription_result.text /\ translated' = FALSE
        ELSE transcript_pt' = t /\ translated' = TRUE
    /\ rpc' = "topicos"
    /\ UNCHANGED <<via, req, status, historico, arquivos, resposta, transcription_result,
                   falha, notificacoes>>
    /\ UNCHANGED foraDaRequisicao

\* translate_en_to_pt raises: the translator cannot be loaded
TraduzirPtFalha ==
    /\ rpc = "traduzir"
    /\ Erro("traducao")
    /\ UNCHANGED <<via, req, arquivos, transcription_result, transcript_pt, translated>>
    /\ UNCHANGED foraDaRequisicao

\* generate_topics_markdown returns: the markdown file is written
GerarTopicos ==
    /\ rpc = "topicos"
    /\ arquivos' = arquivos \cup {"markdown"}
    /\ status' = [stage |-> "generating", progress |-> 95]
    /\ notificacoes' = IF via = "background" THEN notificacoes \cup {"processing"}
                       ELSE notificacoes
    /\ rpc' = "salvar"
    /\ UNCHANGED <<via, req, historico, resposta, transcription_result, transcript_pt,
                   translated, falha>>
    /\ UNCHANGED foraDaRequisicao

\* generate_topics_markdown raises
GerarTopicosFalha ==
    /\ rpc = "topicos"
    /\ Erro("topicos")
    /\ UNCHANGED <<via, req, arquivos, transcription_result, transcript_pt, translated>>
    /\ UNCHANGED foraDaRequisicao

\* transcript_path.write_text(...), and the original when translated
SalvarArquivos ==
    /\ rpc = "salvar"
    /\ arquivos' = arquivos \cup {"transcript"}
                     \cup (IF translated THEN {"transcript_original"} ELSE {})
    /\ rpc' = "persistir"
    /\ UNCHANGED <<via, req, status, historico, resposta, transcription_result,
                   transcript_pt, translated, falha, notificacoes>>
    /\ UNCHANGED foraDaRequisicao

\* store.add(TranscriptionRecord(...)), the final status and the return
PersistirHistorico ==
    /\ rpc = "persistir"
    /\ IF RegistroAceito(CamposPassados)
       THEN /\ historico' = "done"
            /\ status' = [stage |-> "done", progress |-> 100]
            /\ resposta' = IF via = "rota" THEN "200" ELSE resposta
            /\ notificacoes' = IF via = "background" THEN notificacoes \cup {"done"}
                               ELSE notificacoes
            /\ rpc' = "fim"
            /\ UNCHANGED falha
       ELSE Erro("registro")
    /\ UNCHANGED <<via, req, arquivos, transcription_result, transcript_pt, translated>>
    /\ UNCHANGED foraDaRequisicao

NextRequisicao ==
    \/ Receber
    \/ SalvarUpload
    \/ SalvarUploadFalha
    \/ IniciarBackground
    \/ Transcrever
    \/ TranscreverFalha
    \/ TraduzirPt
    \/ TraduzirPtFalha
    \/ GerarTopicos
    \/ GerarTopicosFalha
    \/ SalvarArquivos
    \/ PersistirHistorico

SpecRequisicao == InitRequisicao /\ [][NextRequisicao]_vars

-----------------------------------------------------------------------------
(* Properties of the request *)

ArquivosDeResultado == {"transcript", "transcript_original", "markdown"}

\* C11: when the speech model raises in the decode of a non-chunked file, the
\* request ends there: no transcript is produced or saved, its status is
\* stage "error" with progress 0, the caller of the route gets the error (the
\* background task notifies it), a record of the request in the history is
\* marked "error", and neither the status nor the history ever says "done".
C11_DecodeFailureAborts ==
    falha = "decode" =>
        /\ rpc = "fim"
        /\ status = [stage |-> "error", progress |-> 0]
        /\ transcription_result = SemTranscricao
        /\ arquivos \cap ArquivosDeResultado = {}
        /\ historico \in {"ausente", "error"}
        /\ via = "rota" => resposta = "500"
        /\ via = "background" => ("error" \in notificacoes /\ "done" \notin notificacoes)

C11_Witness ==
    /\ falha = "decode" /\ via = "rota" /\ resposta = "500"
    /\ status = [stage |-> "error", progress |-> 0]

EmProcessamento == {"transcrever", "traduzir", "topicos", "salvar", "persistir"}

\* C17 as stated: while the pipeline of an uploaded file is still running, the
\* caller of the upload already has its acknowledgment.
C17_Original ==
    (via = "rota" /\ rpc \in EmProcessamento) => resposta # "nenhuma"

OutrasFalhas == {"upload", "decode", "traducao", "topicos"}

Aceita == req.suportado /\ req.token

\* C18 as stated: when the decode succeeds with no text, the request raises no
\* error and ends in a state reported apart from the completion of a
\* transcript that is not empty.
C18_Original ==
    (rpc = "fim" /\ Aceita /\ falha \notin OutrasFalhas
       /\ transcription_result.text = <<>>)
        => /\ falha = "nenhuma"
           /\ status.stage # "error"
           /\ status # [stage |-> "done", progress |-> 100]

\* C19 as stated: an accepted upload whose transcription and topic generation
\* succeed is answered 200, a record "done" is stored and the final status is
\* stage "done" with progress 100.
C19_Original ==
    (via = "rota" /\ rpc = "fim" /\ Aceita /\ falha \notin OutrasFalhas)
        => /\ resposta = "200"
           /\ historico = "done"
           /\ status = [stage |-> "done", progress |-> 100]
           /\ {"transcript", "markdown"} \subseteq arquivos

-----------------------------------------------------------------------------
\* translate_en_to_pt (transcription/translate.py): the text is split on
\* sentence punctuation, the pieces are packed into chunks, every chunk is
\* handed to the translator and the parts are joined with single spaces.

\* how many sentences the texts handed to translate_en_to_pt have at most
MaxFrasesTraducao == 3

\* max_chunk_size
MaxChunkSize == 400

\* the matches of [.!?]+(?:\s+|$) in s, as <<first, last>> positions: each
\* maximal run of punctuation that is followed by whitespace or by the end
\* of the text, together with the run of whitespace that follows it
Separadores(s) ==
    LET IniP(i) == EhPontuacao(s[i]) /\ (i = 1 \/ ~EhPontuacao(s[i - 1]))
        FimP(i) == EhPontuacao(s[i]) /\ (i = Len(s) \/ ~EhPontuacao(s[i + 1]))
        IniE(i) == EhEspaco(s[i]) /\ (i = 1 \/ ~EhEspaco(s[i - 1]))
        FimE(i) == EhEspaco(s[i]) /\ (i = Len(s) \/ ~EhEspaco(s[i + 1]))
        iniP == SelectSeq(Posicoes(s), IniP)
        fimP == SelectSeq(Posicoes(s), FimP)
        iniE == SelectSeq(Posicoes(s), IniE)
        fimE == SelectSeq(Posicoes(s), FimE)
        Seguido(k) == fimP[k] = Len(s) \/ EhEspaco(s[fimP[k] + 1])
        casam == SelectSeq(Posicoes(iniP), Seguido)
        FimDe(k) == IF fimP[k] = Len(s) THEN fimP[k]
                    ELSE fimE[CHOOSE m \in 1..Len(iniE) : iniE[m] = fimP[k] + 1]
    IN [n \in 1..Len(casam) |-> <<iniP[casam[n]], FimDe(casam[n])>>]

\* re.split(r'([.!?]+(?:\s+|$))', text): the texts between the separators
\* at the odd positions, the separators at the even ones
ReSplitSentencas(s) ==
    LET seps == Separadores(s)
        m == Len(seps)
        Fim(k) == IF k = 0 THEN 0 ELSE seps[k][2]
    IN [n \in 1..(2 * m + 1) |->
           IF n % 2 = 0 THEN SubSeq(s, seps[n \div 2][1], seps[n \div 2][2])
           ELSE IF n = 2 * m + 1 THEN SubSeq(s, Fim(m) + 1, Len(s))
           ELSE SubSeq(s, Fim((n - 1) \div 2) + 1, seps[(n + 1) \div 2][1] - 1)]

RECURSIVE Empacotar(_, _, _, _)
\* the loop over sentences: a piece that would take current_chunk past
\* max_chunk_size closes it, unless current_chunk is empty
Empacotar(sentences, n, feitos, current_chunk) ==
    IF n > Len(sentences) THEN <<feitos, current_chunk>>
    ELSE LET part == sentences[n] IN
         IF Len(current_chunk) + Len(part) > MaxChunkSize /\ current_chunk # <<>>
         THEN Empacotar(sentences, n + 1, Append(feitos, Strip(current_chunk)), part)
         ELSE Empacotar(sentences, n + 1, feitos, current_chunk \o part)

\* chunks, as the translation loop receives it
ChunksDe(text) ==
    LET r == Empacotar(ReSplitSentencas(text), 1, <<>>, <<>>)
        comResto == IF Strip(r[2]) # <<>> THEN Append(r[1], Strip(r[2])) ELSE r[1]
    IN IF comResto = <<>> THEN <<text>> ELSE comResto

\* the translation the model gives for a chunk: a text other than the chunk
TraducaoDe(chunk) == <<"p", "t", ":">> \o chunk

\* what the except branch appends for a chunk the translator failed on
ParteSemPrimeira(chunk) == Tail(chunk)
ParteAposFalha(chunk) == chunk

\* result if result else text
ResultadoDaTraducao(parts, text) ==
    LET junto == Join(parts, <<" ">>) IN IF junto # <<>> THEN junto ELSE text

\* a sentence body of n letters
CorpoDeFrase(n) == [i \in 1..n |-> "a"]

\* the sentences the texts are made of: bodies that fit a chunk alone, in
\* pairs, or not at all, closed by a sentence boundary or by none
FrasesDeEntrada ==
    { CorpoDeFrase(n) \o <<".", " ">> : n \in {1, 250, 401} } \cup { CorpoDeFrase(250) \o <<"!">> }

RECURSIVE TextosDeSentencas(_)
TextosDeSentencas(k) ==
    IF k = 0 THEN {<<>>}
    ELSE LET menores == TextosDeSentencas(k - 1)
         IN menores \cup { t \o f : t \in menores, f \in FrasesDeEntrada }

TextosParaTraduzir == TextosDeSentencas(MaxFrasesTraducao) \cup {<<" ">>}

InitTraducao ==
    /\ tr_text \in TextosParaTraduzir
    /\ tr_pc = "inicio"
    /\ chunks = <<>> /\ tr_i = 0
    /\ translated_parts = <<>> /\ tr_chamadas = <<>> /\ tr_desfechos = <<>>
    /\ tr_result = <<>>
    /\ LimpezaParada /\ WhisperParado /\ PipelineParado
    /\ RequisicaoParada /\ ChunksParados /\ CacheParado /\ ServicosParados

\* if not text: return text
RetornarSemTraduzir ==
    /\ tr_pc = "inicio" /\ tr_text = <<>>
    /\ tr_result' = tr_text
    /\ tr_pc' = "fim"
    /\ UNCHANGED <<tr_text, chunks, tr_i, translated_parts, tr_chamadas, tr_desfechos>>
    /\ UNCHANGED foraDaTraducao

\* _get_en_to_pt_translator() raises: the call raises before any chunk
CarregarTradutorFalha ==
    /\ tr_pc = "inicio" /\ tr_text # <<>>
    /\ tr_pc' = "erro"
    /\ UNCHANGED <<tr_text, chunks, tr_i, translated_parts, tr_chamadas, tr_desfechos,
                   tr_result>>
    /\ UNCHANGED foraDaTraducao

\* the translator is loaded and the text is packed into chunks
DividirEmChunks ==
    /\ tr_pc = "inicio" /\ tr_text # <<>>
    /\ chunks' = ChunksDe(tr_text)
    /\ tr_i' = 0
    /\ tr_pc' = "traduzindo"
    /\ UNCHANGED <<tr_text, translated_parts, tr_chamadas, tr_desfechos, tr_result>>
    /\ UNCHANGED foraDaTraducao

\* the chunk the loop is at
ChunkAtual == chunks[tr_i + 1]

NoLoopDeChunks == tr_pc = "traduzindo" /\ tr_i < Len(chunks)

\* if not chunk.strip(): continue
PularChunk ==
    /\ NoLoopDeChunks /\ Strip(ChunkAtual) = <<>>
    /\ tr_i' = tr_i + 1
    /\ tr_desfechos' = Append(tr_desfechos, "pulado")
    /\ UNCHANGED <<tr_text, tr_pc, chunks, translated_parts, tr_chamadas, tr_result>>
    /\ UNCHANGED foraDaTraducao

\* the translator is called on the chunk and outputs is a non-empty list:
\* its translation_text is appended
TraduzirChunk ==
    /\ NoLoopDeChunks /\ Strip(ChunkAtual) # <<>>
    /\ tr_chamadas' = Append(tr_chamadas, ChunkAtual)
    /\ translated_parts' = Append(translated_parts, TraducaoDe(ChunkAtual))
    /\ tr_desfechos' = Append(tr_desfechos, "ok")
    /\ tr_i' = tr_i + 1
    /\ UNCHANGED <<tr_text, tr_pc, chunks, tr_result>>
    /\ UNCHANGED foraDaTraducao

\* the translator is called on the chunk and outputs is empty or not a list:
\* the chunk itself is appended
TraduzirChunkSemSaida ==
    /\ NoLoopDeChunks /\ Strip(ChunkAtual) # <<>>
    /\ tr_chamadas' = Append(tr_chamadas, ChunkAtual)
    /\ translated_parts' = Append(translated_parts, ChunkAtual)
    /\ tr_desfechos' = Append(tr_desfechos, "sem_saida")
    /\ tr_i' = tr_i + 1
    /\ UNCHANGED <<tr_text, tr_pc, chunks, tr_result>>
    /\ UNCHANGED foraDaTraducao

\* the translator is called on the chunk and raises: the except branch
\* appends the chunk itself
TraduzirChunkFalha ==
    /\ NoLoopDeChunks /\ Strip(ChunkAtual) # <<>>
    /\ tr_chamadas' = Append(tr_chamadas, ChunkAtual)
    /\ translated_parts' = Append(translated_parts, ParteAposFalha(ChunkAtual))
    /\ tr_desfechos' = Append(tr_desfechos, "erro")
    /\ tr_i' = tr_i + 1
    /\ UNCHANGED <<tr_text, tr_pc, chunks, tr_result>>
    /\ UNCHANGED foraDaTraducao

\* the loop is over: the parts are joined and returned
ConcluirTraducao ==
    /\ tr_pc = "traduzindo" /\ tr_i = Len(chunks)
    /\ tr_result' = ResultadoDaTraducao(translated_parts, tr_text)
    /\ tr_pc' = "fim"
    /\ UNCHANGED <<tr_text, chunks, tr_i, translated_parts, tr_chamadas, tr_desfechos>>
    /\ UNCHANGED foraDaTraducao

NextTraducao ==
    \/ RetornarSemTraduzir
    \/ CarregarTradutorFalha
    \/ DividirEmChunks
    \/ PularChunk
    \/ TraduzirChunk
    \/ TraduzirChunkSemSaida
    \/ TraduzirChunkFalha
    \/ ConcluirTraducao

SpecTraducao == InitTraducao /\ [][NextTraducao]_vars

\* the chunks of the loop that are not blank, in order
ChunksComTexto == LET ComTexto(c) == Strip(c) # <<>> IN SelectSeq(chunks, ComTexto)

\* the outcomes of the chunks that reached the translator, in order
DesfechosDasChamadas == LET Chamado(d) == d # "pulado" IN SelectSeq(tr_desfechos, Chamado)

\* C12: when the translator fails on one chunk, the original text of that
\* chunk takes its place in the output, every other chunk is still handed
\* to the translator and translated, the parts keep the order of the
\* chunks, and the call returns instead of raising.
C12_FailedChunkKeepsOriginal ==
    /\ tr_pc = "erro" => tr_desfechos = <<>>
    /\ tr_pc = "fim" /\ tr_text # <<>> =>
         /\ tr_chamadas = ChunksComTexto
         /\ Len(translated_parts) = Len(ChunksComTexto)
         /\ Len(DesfechosDasChamadas) = Len(ChunksComTexto)
         /\ \A k \in 1..Len(ChunksComTexto) :
                translated_parts[k] = IF DesfechosDasChamadas[k] = "ok"
                                      THEN TraducaoDe(ChunksComTexto[k])
                                      ELSE ChunksComTexto[k]
         /\ tr_result = ResultadoDaTraducao(translated_parts, tr_text)

\* a call of three chunks returned with the second one failed and the
\* other two translated
C12_Witness ==
    /\ tr_pc = "fim"
    /\ Len(chunks) = 3
    /\ tr_desfechos = <<"ok", "erro", "ok">>
    /\ tr_result = TraducaoDe(chunks[1]) \o <<" ">> \o chunks[2] \o <<" ">>
                       \o TraducaoDe(chunks[3])

\* the characters of a text that are not whitespace
SemEspacos(s) == LET Cheio(c) == ~EhEspaco(c) IN SelectSeq(s, Cheio)

\* C13: every chunk handed to the translator has at most 400 characters,
\* and the chunks in order cover the whole source text.
C13_Original ==
    tr_pc \in {"traduzindo", "fim"} /\ tr_text # <<>> =>
        /\ \A k \in 1..Len(chunks) : Len(chunks[k]) <= MaxChunkSize
        /\ \A k \in 1..Len(tr_chamadas) : Len(tr_chamadas[k]) <= MaxChunkSize
        /\ SemEspacos(Join(chunks, <<>>)) = SemEspacos(tr_text)

-----------------------------------------------------------------------------
\* split_audio_into_chunks (transcription/audio_utils.py) and the decoding
\* phase of a chunked file.  Only the segmentation is in the sources; the
\* parallel decode of the chunks, the table of results, the merge and the
\* removal of the chunk files follow the description of the orchestrator.
\* total_duration is counted in half seconds, chunk_duration in seconds.

\* the longest total_duration tried, in half seconds
MaxDuracao == 6

\* chunk_duration in the unit of total_duration
EmMeiosSegundos(segundos) == 2 * segundos

\* num_chunks
NumChunksSemResto(total, chunk) == total \div EmMeiosSegundos(chunk)
NumChunks(total, chunk) ==
    (total \div EmMeiosSegundos(chunk))
        + (IF total % EmMeiosSegundos(chunk) > 0 THEN 1 ELSE 0)

\* the decimal digits of n, most significant first
Digito(d) == <<"0", "1", "2", "3", "4", "5", "6", "7", "8", "9">>[d + 1]

RECURSIVE Decimal(_)
Decimal(n) == IF n < 10 THEN <<Digito(n)>> ELSE Append(Decimal(n \div 10), Digito(n % 10))

\* f"{i:03d}": the decimal digits of i, padded with zeros on the left to
\* three characters at least
Formato03d(i) ==
    LET d == Decimal(i)
    IN [k \in 1..(IF Len(d) < 3 THEN 3 - Len(d) ELSE 0) |-> "0"] \o d

\* chunk_path: f"{request_id}_chunk_{i:03d}{ext}" in output_dir
ChunkPath(i) == <<"request_id", "_chunk_">> \o Formato03d(i) \o <<".mp3">>

\* start_time
StartTime(i, chunk) == i * chunk

\* the file ffmpeg writes at chunk_path, from -ss start_time, with or
\* without -t chunk_duration; a failed run may leave an incomplete file
Arquivo(i, chunk, comT, completo) ==
    [path |-> ChunkPath(i), ss |-> StartTime(i, chunk), t |-> comT, completo |-> completo]

\* ffmpeg -y: the file at the path is overwritten
Escrever(d, f) == {g \in d : g.path # f.path} \cup {f}

\* the audio file of the request, which is not a chunk
AudioOriginal == [path |-> <<"request_id", ".mp3">>, ss |-> 0, t |-> FALSE, completo |-> TRUE]

\* the text the model decodes from chunk k
TextoDoChunk(k) == <<"texto", Digito(k)>>

InitChunks ==
    /\ \/ total_duration \in 0..MaxDuracao /\ chunk_duration \in {1, 2}
       \/ total_duration = EmMeiosSegundos(1500) /\ chunk_duration = 600
    /\ sp_pc = "inicio" /\ sp_i = 0 /\ sp_chunks = <<>>
    /\ disco = {AudioOriginal} /\ criados = {}
    /\ textos_chunk = <<>> /\ resultados = <<>> /\ ordem = <<>> /\ merged = <<>>
    /\ comandos = <<>>
    /\ LimpezaParada /\ WhisperParado /\ PipelineParado
    /\ RequisicaoParada /\ TraducaoParada /\ CacheParado /\ ServicosParados

num_chunks == NumChunks(total_duration, chunk_duration)

\* one run of ffmpeg for chunk i: with or without -t chunk_duration, always
\* with -c copy, and whether it succeeded
ComandoFfmpeg(i, comT, ok) == [i |-> i, t |-> comT, codec |-> "copy", ok |-> ok]

\* a retry for every chunk
QualquerChunk(i) == TRUE

\* if i == num_chunks - 1
EhUltimoChunk(i) == i = num_chunks - 1

\* get_audio_duration raises RuntimeError: the split raises with no file
MedirDuracaoFalha ==
    /\ sp_pc = "inicio"
    /\ sp_pc' = "split_falhou"
    /\ UNCHANGED <<total_duration, chunk_duration, sp_i, sp_chunks, disco, criados,
                   textos_chunk, resultados, ordem, merged>>
    /\ UNCHANGED comandos
    /\ UNCHANGED foraDosChunks

\* the duration is measured and num_chunks computed
IniciarSplit ==
    /\ sp_pc = "inicio"
    /\ sp_pc' = "dividindo" /\ sp_i' = 0 /\ sp_chunks' = <<>>
    /\ UNCHANGED <<total_duration, chunk_duration, disco, criados, textos_chunk,
                   resultados, ordem, merged>>
    /\ UNCHANGED comandos
    /\ UNCHANGED foraDosChunks

NoLoopDoSplit == sp_pc = "dividindo" /\ sp_i < num_chunks

\* ffmpeg extracts chunk i with -t chunk_duration
ExtrairChunk ==
    /\ NoLoopDoSplit
    /\ disco' = Escrever(disco, Arquivo(sp_i, chunk_duration, TRUE, TRUE))
    /\ criados' = criados \cup {ChunkPath(sp_i)}
    /\ sp_chunks' = Append(sp_chunks, ChunkPath(sp_i))
    /\ sp_i' = sp_i + 1
    /\ UNCHANGED <<total_duration, chunk_duration, sp_pc, textos_chunk, resultados, ordem,
                   merged>>
    /\ comandos' = Append(comandos, ComandoFfmpeg(sp_i, TRUE, TRUE))
    /\ UNCHANGED foraDosChunks

\* what a failed run of ffmpeg leaves at chunk_path: nothing, or an
\* incomplete file
AposFfmpegFalho(d, cr, i, comT, deixa) ==
    IF deixa THEN <<Escrever(d, Arquivo(i, chunk_duration, comT, FALSE)), cr \cup {ChunkPath(i)}>>
    ELSE <<d, cr>>

\* ffmpeg fails on a chunk that is not the last: RuntimeError
ExtrairChunkFalha ==
    /\ NoLoopDoSplit /\ ~EhUltimoChunk(sp_i)
    /\ \E deixa \in BOOLEAN :
         LET r == AposFfmpegFalho(disco, criados, sp_i, TRUE, deixa)
         IN disco' = r[1] /\ criados' = r[2]
    /\ sp_pc' = "split_falhou"
    /\ UNCHANGED <<total_duration, chunk_duration, sp_i, sp_chunks, textos_chunk,
                   resultados, ordem, merged>>
    /\ comandos' = Append(comandos, ComandoFfmpeg(sp_i, TRUE, FALSE))
    /\ UNCHANGED foraDosChunks

\* ffmpeg fails on the last chunk and the run without -t succeeds
ExtrairUltimoSemDuracao ==
    /\ NoLoopDoSplit /\ EhUltimoChunk(sp_i)
    /\ disco' = Escrever(disco, Arquivo(sp_i, chunk_duration, FALSE, TRUE))
    /\ criados' = criados \cup {ChunkPath(sp_i)}
    /\ sp_chunks' = Append(sp_chunks, ChunkPath(sp_i))
    /\ sp_i' = sp_i + 1
    /\ UNCHANGED <<total_duration, chunk_duration, sp_pc, textos_chunk, resultados, ordem,
                   merged>>
    /\ comandos' = comandos \o <<ComandoFfmpeg(sp_i, TRUE, FALSE), ComandoFfmpeg(sp_i, FALSE, TRUE)>>
    /\ UNCHANGED foraDosChunks

\* ffmpeg fails on the last chunk with and without -t: RuntimeError
ExtrairUltimoFalha ==
    /\ NoLoopDoSplit /\ EhUltimoChunk(sp_i)
    /\ \E deixa \in BOOLEAN :
         LET r == AposFfmpegFalho(disco, criados, sp_i, FALSE, deixa)
         IN disco' = r[1] /\ criados' = r[2]
    /\ sp_pc' = "split_falhou"
    /\ UNCHANGED <<total_duration, chunk_duration, sp_i, sp_chunks, textos_chunk,
                   resultados, ordem, merged>>
    /\ comandos' = comandos \o <<ComandoFfmpeg(sp_i, TRUE, FALSE), ComandoFfmpeg(sp_i, FALSE, FALSE)>>
    /\ UNCHANGED foraDosChunks

\* return chunks
RetornarChunks ==
    /\ sp_pc = "dividindo" /\ sp_i = num_chunks
    /\ sp_pc' = "retornou"
    /\ UNCHANGED <<total_duration, chunk_duration, sp_i, sp_chunks, disco, criados,
                   textos_chunk, resultados, ordem, merged>>
    /\ UNCHANGED comandos
    /\ UNCHANGED foraDosChunks

\* the table of results before any decode: one slot for each chunk
TabelaVazia(n) == [k \in 1..n |-> [feito |-> FALSE, text |-> <<>>, language |-> ""]]

\* the orchestrator sets up the table of results and starts the decodes of
\* the chunks
IniciarDecodificacao ==
    /\ sp_pc = "retornou"
    /\ sp_pc' = "decodificando"
    /\ textos_chunk' = [k \in 1..Len(sp_chunks) |-> TextoDoChunk(k)]
    /\ resultados' = TabelaVazia(Len(sp_chunks))
    /\ ordem' = <<>>
    /\ UNCHANGED <<total_duration, chunk_duration, sp_i, sp_chunks, disco, criados, merged>>
    /\ UNCHANGED comandos
    /\ UNCHANGED foraDosChunks

\* the decode of chunk k completes, in any order among the chunks: its
\* result goes to slot k of the table
DecodificarChunk ==
    /\ sp_pc = "decodificando"
    /\ \E k \in 1..Len(resultados) :
         /\ ~resultados[k].feito
         /\ resultados' = [resultados EXCEPT ![k] = [feito |-> TRUE, text |-> textos_chunk[k],
                                                     language |-> "en"]]
         /\ ordem' = Append(ordem, k)
    /\ UNCHANGED <<total_duration, chunk_duration, sp_pc, sp_i, sp_chunks, disco, criados,
                   textos_chunk, merged>>
    /\ UNCHANGED comandos
    /\ UNCHANGED foraDosChunks

\* the decode of chunk k raises: the chunk contributes empty text with
\* language "unknown" and the batch goes on
DecodificarChunkFalha ==
    /\ sp_pc = "decodificando"
    /\ \E k \in 1..Len(resultados) :
         /\ ~resultados[k].feito
         /\ resultados' = [resultados EXCEPT ![k] = [feito |-> TRUE, text |-> <<>>,
                                                     language |-> "unknown"]]
         /\ ordem' = Append(ordem, k)
    /\ UNCHANGED <<total_duration, chunk_duration, sp_pc, sp_i, sp_chunks, disco, criados,
                   textos_chunk, merged>>
    /\ UNCHANGED comandos
    /\ UNCHANGED foraDosChunks

\* the order in which the merge reads the table of results
OrdemDeTermino(tabela, termino) == termino
OrdemDeMescla(tabela, termino) == Posicoes(tabela)

\* the chunk texts joined with single spaces
Mesclar(tabela, termino) ==
    LET indices == OrdemDeMescla(tabela, termino)
    IN Join([n \in 1..Len(indices) |-> tabela[indices[n]].text], <<" ">>)

\* every chunk is decoded: the texts of the table are merged
MesclarChunks ==
    /\ sp_pc = "decodificando"
    /\ \A k \in 1..Len(resultados) : resultados[k].feito
    /\ merged' = Mesclar(resultados, ordem)
    /\ sp_pc' = "mesclado"
    /\ UNCHANGED <<total_duration, chunk_duration, sp_i, sp_chunks, disco, criados,
                   textos_chunk, resultados, ordem>>
    /\ UNCHANGED comandos
    /\ UNCHANGED foraDosChunks

\* the segmentation failed: the file is decoded as a single unit, and that
\* decode returns or raises
DecodificarUnidade ==
    /\ sp_pc = "split_falhou"
    /\ \E ok \in BOOLEAN :
         /\ sp_pc' = IF ok THEN "unidade_ok" ELSE "unidade_falhou"
         /\ merged' = IF ok THEN <<"texto">> ELSE <<>>
    /\ UNCHANGED <<total_duration, chunk_duration, sp_i, sp_chunks, disco, criados,
                   textos_chunk, resultados, ordem>>
    /\ UNCHANGED comandos
    /\ UNCHANGED foraDosChunks

\* the chunk files the cleanup removes: every chunk file of the request
ArquivosDevolvidos(d, lista) ==
    {f \in d : \E k \in 1..Len(lista) : f.path = lista[k]}
ArquivosDeChunk(d, lista) == {f \in d : f.path # AudioOriginal.path}

\* the pipeline leaves its decoding phase, after the merge or after the
\* single-unit decode returned or raised: the chunk files are removed
SairDaDecodificacao ==
    /\ sp_pc \in {"mesclado", "unidade_ok", "unidade_falhou"}
    /\ disco' = disco \ ArquivosDeChunk(disco, sp_chunks)
    /\ sp_pc' = IF sp_pc = "mesclado" THEN "saiu"
                ELSE IF sp_pc = "unidade_ok" THEN "saiu_unidade" ELSE "saiu_com_erro"
    /\ UNCHANGED <<total_duration, chunk_duration, sp_i, sp_chunks, criados, textos_chunk,
                   resultados, ordem, merged>>
    /\ UNCHANGED comandos
    /\ UNCHANGED foraDosChunks

NextChunks ==
    \/ MedirDuracaoFalha
    \/ IniciarSplit
    \/ ExtrairChunk
    \/ ExtrairChunkFalha
    \/ ExtrairUltimoSemDuracao
    \/ ExtrairUltimoFalha
    \/ RetornarChunks
    \/ IniciarDecodificacao
    \/ DecodificarChunk
    \/ DecodificarChunkFalha
    \/ MesclarChunks
    \/ DecodificarUnidade
    \/ SairDaDecodificacao

SpecChunks == InitChunks /\ [][NextChunks]_vars

\* the number a sequence of decimal digits stands for
RECURSIVE ValorDecimal(_)
ValorDecimal(d) ==
    IF d = <<>> THEN 0
    ELSE 10 * ValorDecimal(SubSeq(d, 1, Len(d) - 1))
           + (CHOOSE v \in 0..9 : Digito(v) = d[Len(d)])

\* the file at a path on a disk
ArquivoEm(d, path) == CHOOSE f \in d : f.path = path

\* C14: a split that returns gives exactly ceil(D / chunk_duration) paths in
\* increasing chunk-index order; the path of index i carries i as three
\* zero-padded digits and its file starts at i * chunk_duration, so that the
\* chunks are contiguous and do not overlap (D = 1500, chunk 600: 000, 001,
\* 002).
C14_SplitCountNamesOffsets ==
    sp_pc = "retornou" =>
        LET n == Len(sp_chunks)
            c == EmMeiosSegundos(chunk_duration)
        IN /\ (n - 1) * c < total_duration
           /\ total_duration <= n * c
           /\ \A i \in 0..(n - 1) :
                LET path == sp_chunks[i + 1]
                    indice == SubSeq(path, 3, Len(path) - 1)
                IN /\ Len(indice) = 3
                   /\ ValorDecimal(indice) = i
                   /\ \E f \in disco : f.path = path
                   /\ ArquivoEm(disco, path).completo
                   /\ ArquivoEm(disco, path).ss = i * chunk_duration
                   /\ i < n - 1 => ArquivoEm(disco, path).t
           /\ (total_duration = EmMeiosSegundos(1500) /\ chunk_duration = 600) =>
                /\ n = 3
                /\ \A i \in 0..2 :
                     SubSeq(sp_chunks[i + 1], 3, 5) = <<"0", "0", Digito(i)>>

\* the split of a 1500-second audio in chunks of 600 seconds has returned
C14_Witness ==
    /\ sp_pc = "retornou"
    /\ total_duration = EmMeiosSegundos(1500) /\ chunk_duration = 600
    /\ Len(sp_chunks) = 3

\* C15: for a chunked file whose chunks are decoded in parallel, the merged
\* text is the chunk texts joined with single spaces in chunk-index order,
\* whatever the order in which the decodes completed.
C15_MergeInIndexOrder ==
    sp_pc \in {"mesclado", "saiu"} =>
        /\ Len(resultados) = Len(sp_chunks)
        /\ \A k \in 1..Len(resultados) :
             resultados[k].text \in {textos_chunk[k], <<>>}
        /\ merged = Join([k \in 1..Len(resultados) |-> resultados[k].text], <<" ">>)

\* three chunks were merged after their decodes completed last chunk first
C15_Witness ==
    /\ sp_pc = "mesclado"
    /\ ordem = <<3, 2, 1>>
    /\ merged = TextoDoChunk(1) \o <<" ">> \o TextoDoChunk(2) \o <<" ">> \o TextoDoChunk(3)

\* the pipeline has left its decoding phase
ForaDaDecodificacao == sp_pc \in {"saiu", "saiu_unidade", "saiu_com_erro"}

-----------------------------------------------------------------------------
\* get_cached_model (transcription/model.py) and _get_cached_model
\* (transcription/service.py): each module keeps its own _model_cache, and
\* transcribe_file runs _run, which calls the function, in a worker thread
\* for every request.  The test of the key, the load, the store and the
\* final read are separate steps of a thread.

\* how many calls each thread makes at most
MaxChamadas == 2

\* the worker threads that run _run at the same time
Threads == {"t1", "t2"}

\* the two modules that keep a _model_cache
Modulos == {"model", "service"}

\* cache_key = f"{model_name}_{device}"
CacheKey(model_name, device) == <<model_name, "_", device>>
CacheKeys == {CacheKey("base", "cpu"), CacheKey("base", "cuda")}

\* a thread outside the function
ThreadFora == [pc |-> "fora", modulo |-> "model", key |-> CacheKey("base", "cpu"),
               carregado |-> 0, feitas |-> 0]

InitCache ==
    /\ model_cache = [m \in Modulos |-> [k \in CacheKeys |-> 0]]
    /\ th = [t \in Threads |-> ThreadFora]
    /\ loads = [m \in Modulos |-> [k \in CacheKeys |-> 0]]
    /\ proximo = 1
    /\ devolvidos = {}
    /\ substituido = FALSE
    /\ LimpezaParada /\ WhisperParado /\ PipelineParado
    /\ RequisicaoParada /\ TraducaoParada /\ ChunksParados /\ ServicosParados

\* the entry of the cache the thread works on
EntradaDe(t) == model_cache[th[t].modulo][th[t].key]

\* a thread calls the function of one of the modules for a key
ChamarGetCachedModel ==
    /\ \E t \in Threads, m \in Modulos, k \in CacheKeys :
         /\ th[t].pc = "fora" /\ th[t].feitas < MaxChamadas
         /\ th' = [th EXCEPT ![t] = [pc |-> "verificar", modulo |-> m, key |-> k,
                                     carregado |-> 0, feitas |-> th[t].feitas + 1]]
    /\ UNCHANGED <<model_cache, loads, proximo, devolvidos, substituido>>
    /\ UNCHANGED foraDoCache

\* if cache_key not in _model_cache
PrecisaCarregar(no_cache) == no_cache = 0

VerificarCache ==
    /\ \E t \in Threads :
         /\ th[t].pc = "verificar"
         /\ th' = [th EXCEPT ![t].pc = IF PrecisaCarregar(EntradaDe(t)) THEN "carregar"
                                       ELSE "retornar"]
    /\ UNCHANGED <<model_cache, loads, proximo, devolvidos, substituido>>
    /\ UNCHANGED foraDoCache

\* whisper.load_model returns a new instance
CarregarModelo ==
    /\ \E t \in Threads :
         /\ th[t].pc = "carregar"
         /\ th' = [th EXCEPT ![t].pc = "guardar", ![t].carregado = proximo]
         /\ loads' = [loads EXCEPT ![th[t].modulo][th[t].key] = @ + 1]
    /\ proximo' = proximo + 1
    /\ UNCHANGED <<model_cache, devolvidos, substituido>>
    /\ UNCHANGED foraDoCache

\* whisper.load_model raises: the call raises and the cache is as it was
CarregarModeloFalha ==
    /\ \E t \in Threads :
         /\ th[t].pc = "carregar"
         /\ th' = [th EXCEPT ![t].pc = "fora"]
    /\ UNCHANGED <<model_cache, loads, proximo, devolvidos, substituido>>
    /\ UNCHANGED foraDoCache

\* _model_cache[cache_key] = the instance the thread loaded
GuardarNoCache ==
    /\ \E t \in Threads :
         /\ th[t].pc = "guardar"
         /\ model_cache' = [model_cache EXCEPT ![th[t].modulo][th[t].key] = th[t].carregado]
         /\ substituido' = (substituido \/ EntradaDe(t) # 0)
         /\ th' = [th EXCEPT ![t].pc = "retornar"]
    /\ UNCHANGED <<loads, proximo, devolvidos>>
    /\ UNCHANGED foraDoCache

\* return _model_cache[cache_key]
RetornarModelo ==
    /\ \E t \in Threads :
         /\ th[t].pc = "retornar"
         /\ devolvidos' = devolvidos \cup {<<th[t].modulo, th[t].key, EntradaDe(t)>>}
         /\ th' = [th EXCEPT ![t].pc = "fora"]
    /\ UNCHANGED <<model_cache, loads, proximo, substituido>>
    /\ UNCHANGED foraDoCache

NextCache ==
    \/ ChamarGetCachedModel
    \/ VerificarCache
    \/ CarregarModelo
    \/ CarregarModeloFalha
    \/ GuardarNoCache
    \/ RetornarModelo

SpecCache == InitCache /\ [][NextCache]_vars

\* C20: in each cache and for every key, after any interleaving of
\* concurrent transcriptions the model is loaded at most once, the cached
\* instance is never replaced or removed, and every call for the key
\* returns the same instance.
C20_Original ==
    /\ \A m \in Modulos, k \in CacheKeys : loads[m][k] <= 1
    /\ ~substituido
    /\ \A a \in devolvidos, b \in devolvidos :
         (a[1] = b[1] /\ a[2] = b[2]) => a[3] = b[3]

-----------------------------------------------------------------------------
\* Further properties of the cleaner (SpecLimpeza)

\* the number of words of a text
NumPalavras(texto) == Len(Split(texto))

\* C21: the word-pattern loop terminates: iteracao never exceeds 15, every
\* step of the loop either ends it or counts one more iteration, an
\* iteration that does not end the loop leaves strictly fewer words, and an
\* iteration that removes nothing ends the loop.
C21_CollapseLoopTerminates ==
    [][pcl = "padroes" =>
         /\ iteracao' <= MaxIteracoes
         /\ pcl' = "sentencas" \/ (pcl' = "padroes" /\ iteracao' = iteracao + 1)
         /\ pcl' = "padroes" => NumPalavras(texto_limpo') < NumPalavras(texto_limpo)
         /\ texto_limpo' = texto_limpo => pcl' = "sentencas"
         /\ (pcl' = "sentencas" /\ iteracao < MaxIteracoes) => ~removido']_vars

\* the loop has ended because 15 iterations elapsed, each with a collapse
C21_Witness ==
    /\ pcl = "sentencas" /\ rodada = 1
    /\ iteracao = MaxIteracoes
    /\ removido
    /\ NumPalavras(apos_padroes) < NumPalavras(original)

\* the places <<i, tam>> where a pattern of 6 to 12 words stands twice in a
\* row in a list of words, compared in lower case, i counted from 0
PadroesDuplos(palavras) ==
    { p \in (0..Len(palavras)) \X (6..MaxTamanhoPadrao) :
        /\ p[1] + 2 * p[2] <= Len(palavras)
        /\ PadraoTexto(palavras, p[1], p[2]) = PadraoTexto(palavras, p[1] + p[2], p[2]) }

\* a list of words without the second occurrence of the pattern at p
SemSegundaOcorrencia(palavras, p) ==
    SubSeq(palavras, 1, p[1] + p[2]) \o SubSeq(palavras, p[1] + 2 * p[2] + 1, Len(palavras))

\* C22: in a text whose only repetition is a pattern of 6 to 12 words that
\* stands exactly twice in a row, the word-pattern collapse deletes the
\* second occurrence and keeps the first, at the start, in the middle and at
\* the end of the text.
C22_Original ==
    (pcl = "sentencas" /\ rodada = 1 /\ original \in TextosDePadraoDuplo) =>
        \A p \in PadroesDuplos(Split(original)) :
            Split(apos_padroes) = SemSegundaOcorrencia(Split(original), p)

\* how many words of a text are the word "de"
NumIgnoradas(texto) ==
    LET EhDe(w) == Lower(w) = <<"d", "e">> IN Len(SelectSeq(Split(texto), EhDe))

\* the word-pattern loop of the first clean has ended on a text that is
\* one run of a closed-class word among words that are not repeated
CorridaIgnoradaProcessada ==
    pcl = "sentencas" /\ rodada = 1 /\ original \in TextosDeIgnoradas

\* C23 as stated: a run of one closed-class word is left unchanged by the
\* word-pattern collapse, for every run length
C23_Original == CorridaIgnoradaProcessada => apos_padroes = original

\* C23 amended: in a text whose other words are not repeated, a run of one
\* closed-class word is left unchanged when it has at most 5 copies; a run
\* of 6 copies or more is collapsed, as a repetition of a pattern of 2 or
\* more words
C23_ShortRunsExempt ==
    CorridaIgnoradaProcessada =>
        /\ NumIgnoradas(original) <= 5 => apos_padroes = original
        /\ NumIgnoradas(original) >= 6 =>
              /\ NumIgnoradas(apos_padroes) < NumIgnoradas(original)
              /\ NumIgnoradas(apos_padroes) >= 2
              /\ NumPalavras(original) - NumPalavras(apos_padroes)
                    = NumIgnoradas(original) - NumIgnoradas(apos_padroes)

\* a run of 5 copies of "de" between other words went through the loop
C23_Witness ==
    /\ CorridaIgnoradaProcessada
    /\ original = CorridaIgnorada(5, 1, 1)
    /\ apos_padroes = original

-----------------------------------------------------------------------------
\* Further properties of split_audio_into_chunks (SpecChunks)

\* the runs of ffmpeg for chunk i, in order
ComandosDoChunk(i) == LET Do(c) == c.i = i IN SelectSeq(comandos, Do)

\* the split has raised RuntimeError
SplitFalhou ==
    sp_pc \in {"split_falhou", "unidade_ok", "unidade_falhou", "saiu_unidade", "saiu_com_erro"}

\* C24: the split raises as soon as the extraction of a chunk that is not
\* the last fails, without a retry; the extraction of the last chunk is
\* retried once, without -t, after it failed; the split returns the whole
\* ordered list when the retry succeeds and raises when it fails; every run
\* of ffmpeg copies the streams.
C24_FailFastAndOneRetry ==
    /\ \A k \in 1..Len(comandos) : comandos[k].codec = "copy"
    /\ \A i \in 0..(num_chunks - 1) :
         LET cs == ComandosDoChunk(i) IN
         /\ Len(cs) <= (IF i = num_chunks - 1 THEN 2 ELSE 1)
         /\ Len(cs) >= 1 => cs[1].t
         /\ Len(cs) = 2 => (~cs[1].ok /\ ~cs[2].t)
         /\ (i < num_chunks - 1 /\ Len(cs) = 1 /\ ~cs[1].ok) =>
               (SplitFalhou /\ comandos[Len(comandos)] = cs[1] /\ Len(sp_chunks) = i)
         /\ (i = num_chunks - 1 /\ Len(cs) = 2 /\ ~cs[2].ok) =>
               (SplitFalhou /\ Len(sp_chunks) = i)
         /\ (i = num_chunks - 1 /\ Len(cs) = 2 /\ cs[2].ok) =>
               (~SplitFalhou /\ Len(sp_chunks) = num_chunks
                /\ \A j \in 0..(num_chunks - 1) : sp_chunks[j + 1] = ChunkPath(j))
    /\ (SplitFalhou /\ comandos # <<>>) => ~comandos[Len(comandos)].ok

\* the split of three chunks has returned after the last chunk failed with
\* -t and was extracted without it
C24_Witness ==
    /\ sp_pc = "retornou"
    /\ Len(sp_chunks) = 3
    /\ Len(comandos) = 4
    /\ ~comandos[3].ok /\ comandos[3].t
    /\ comandos[4].ok /\ ~comandos[4].t

\* C25: clean(t) is never longer than t, for every text t, and so the number
\* of removed characters that aplicar_limpeza_condicional reports for a text
\* flagged as anomalous is never negative.
C25_Original ==
    Limpo1 =>
        /\ Len(texto_limpo) <= Len(original)
        /\ anomalia => Len(original) - Len(AplicarLimpezaCondicional(original)) >= 0

-----------------------------------------------------------------------------
(* The progress values recorded during one run of the per-file pipeline:
   api/routes.py transcribe_audio, transcription/background.py
   process_transcription_async, transcription/service.py _run and
   topics/service.py generate_topics_markdown *)

\* how many chunks usar_huggingface may cut the transcript into
MaxChunksTopicos == 3

foraDoProgresso == <<varsNucleo, varsFila, varsManager, varsHistorico>>

Registro(stage, progress) == [stage |-> stage, progress |-> progress]

\* set_status for each value of a list, all at one stage
Registros(stage, valores) == [k \in 1..Len(valores) |-> Registro(stage, valores[k])]

\* the reports of _run in transcribe_file, for a request_id that is set
RelatosDoRun(loop, outro_idioma, vazio, anom) ==
    <<10, 15, 35, 40, 40>>
        \o (IF loop THEN <<42>> ELSE <<>>)
        \o (IF outro_idioma THEN <<45>> ELSE <<>>)
        \o <<50>>
        \o (IF vazio THEN <<>> ELSE IF anom THEN <<55, 58>> ELSE <<58>>)

\* progresso = 75 + int((i + 1) / len(chunks) * 15), for i + 1 = k
ProgressoDoChunk(k, n) == 75 + (k * 15) \div n

\* the reports of usar_huggingface once transformers is imported and the
\* summarizer is loaded, for a transcript of n chunks
RelatosHuggingFace(n) == <<72, 74, 75>> \o [k \in 1..n |-> ProgressoDoChunk(k, n)]

\* the reports of generate_topics_markdown up to the call of usar_spellbook
RelatosAteSpellbook == <<70, 72, 75>>

\* the reports between the failure of Spellbook and the call of usar_huggingface
RelatosAteHuggingFace == <<72, 75>>

InitProgresso ==
    /\ pg_via \in {"rota", "background"}
    /\ pg_pc = "inicio"
    /\ progressos = <<>>
    /\ NucleoParado /\ FilaParada /\ ManagerParado /\ HistoricoParado

Relatar(regs) == progressos' = progressos \o regs

\* the except branch of both callers: set_status(request_id, "error", 0, ...)
ErroNoProgresso(regs) ==
    /\ Relatar(regs \o <<Registro("error", 0)>>)
    /\ pg_pc' = "erro"

\* the first status of the run: "uploading" in the route, "processing" in the
\* background task, and then "transcribing" at 20
IniciarProgresso ==
    /\ pg_pc = "inicio"
    /\ Relatar(<<Registro(IF pg_via = "rota" THEN "uploading" ELSE "processing", 10),
                 Registro("transcribing", 20)>>)
    /\ pg_pc' = "transcrever"
    /\ UNCHANGED pg_via
    /\ UNCHANGED foraDoProgresso

\* transcribe_file runs _run to its end, and the caller records 60
TranscreverComProgresso ==
    /\ pg_pc = "transcrever"
    /\ \E loop, outro_idioma, vazio, anom \in BOOLEAN :
        Relatar(Registros("transcribing",
                          RelatosDoRun(loop, outro_idioma, vazio, anom) \o <<60>>))
    /\ pg_pc' = "traduzir"
    /\ UNCHANGED pg_via
    /\ UNCHANGED foraDoProgresso

\* get_cached_model or model.transcribe raises in _run
TranscreverComProgressoFalha ==
    /\ pg_pc = "transcrever"
    /\ \E relatos \in {<<10, 15>>, <<10, 15, 35, 40, 40>>} :
        ErroNoProgresso(Registros("transcribing", relatos))
    /\ UNCHANGED pg_via
    /\ UNCHANGED foraDoProgresso

\* the translation step: 62 when there is a text to translate, and then
\* "generating" at 65; translate_en_to_pt is called without a request_id
TraduzirComProgresso ==
    /\ pg_pc = "traduzir"
    /\ \E traduz \in BOOLEAN :
        Relatar((IF traduz THEN <<Registro("transcribing", 62)>> ELSE <<>>)
                    \o <<Registro("generating", 65)>>)
    /\ pg_pc' = "topicos"
    /\ UNCHANGED pg_via
    /\ UNCHANGED foraDoProgresso

\* translate_en_to_pt raises
TraduzirComProgressoFalha ==
    /\ pg_pc = "traduzir"
    /\ ErroNoProgresso(<<Registro("transcribing", 62)>>)
    /\ UNCHANGED pg_via
    /\ UNCHANGED foraDoProgresso

\* generate_topics_markdown: Spellbook answers
TopicosComSpellbook ==
    /\ pg_pc = "topicos"
    /\ Relatar(Registros("generating", RelatosAteSpellbook \o <<90, 95>>))
    /\ pg_pc' = "salvar"
    /\ UNCHANGED pg_via
    /\ UNCHANGED foraDoProgresso

\* generate_topics_markdown: Spellbook fails and Hugging Face answers
TopicosComHuggingFace ==
    /\ pg_pc = "topicos"
    /\ \E n \in 1..MaxChunksTopicos :
        Relatar(Registros("generating",
                          RelatosAteSpellbook \o RelatosAteHuggingFace
                              \o RelatosHuggingFace(n) \o <<90, 95>>))
    /\ pg_pc' = "salvar"
    /\ UNCHANGED pg_via
    /\ UNCHANGED foraDoProgresso

\* generate_topics_markdown: Spellbook and Hugging Face fail (transformers is
\* not installed, the summarizer cannot be loaded, or no chunk is summarised)
\* and gerar_topicos_simples answers
TopicosSimples ==
    /\ pg_pc = "topicos"
    /\ \E hf \in {<<>>, <<72>>} \cup { RelatosHuggingFace(n) : n \in 0..MaxChunksTopicos } :
        Relatar(Registros("generating",
                          RelatosAteSpellbook \o RelatosAteHuggingFace \o hf
                              \o <<80, 92, 95>>))
    /\ pg_pc' = "salvar"
    /\ UNCHANGED pg_via
    /\ UNCHANGED foraDoProgresso

\* generate_topics_markdown raises after its first report
TopicosComProgressoFalha ==
    /\ pg_pc = "topicos"
    /\ ErroNoProgresso(<<Registro("generating", 70)>>)
    /\ UNCHANGED pg_via
    /\ UNCHANGED foraDoProgresso

\* the files are written, the record is built and the final status is set
ConcluirProgresso ==
    /\ pg_pc = "salvar"
    /\ IF RegistroAceito(CamposPassados)
       THEN Relatar(<<Registro("done", 100)>>) /\ pg_pc' = "fim"
       ELSE ErroNoProgresso(<<>>)
    /\ UNCHANGED pg_via
    /\ UNCHANGED foraDoProgresso

NextProgresso ==
    \/ IniciarProgresso
    \/ TranscreverComProgresso
    \/ TranscreverComProgressoFalha
    \/ TraduzirComProgresso
    \/ TraduzirComProgressoFalha
    \/ TopicosComSpellbook
    \/ TopicosComHuggingFace
    \/ TopicosSimples
    \/ TopicosComProgressoFalha
    \/ ConcluirProgresso

SpecProgresso == InitProgresso /\ [][NextProgresso]_vars

\* C26 as stated: while a run of the per-file pipeline has raised no error,
\* the progress values recorded for the request so far are all within 0..100,
\* none is smaller than the one recorded before it, and 100 is recorded only
\* together with the stage "done".
C26_Original ==
    pg_pc # "erro" =>
        /\ \A k \in 1..Len(progressos) :
            /\ progressos[k].progress \in 0..100
            /\ progressos[k].progress = 100 => progressos[k].stage = "done"
        /\ \A k \in 1..(Len(progressos) - 1) :
            progressos[k].progress <= progressos[k + 1].progress

-----------------------------------------------------------------------------
(* The delivery of the status updates of one request to a subscribed WebSocket
   client: utils/status.py (_status_queue, notify_status_from_thread,
   _process_status_queue) and transcription/background.py
   process_transcription_async *)

foraDaFila == <<varsNucleo, varsProgresso, varsManager, varsHistorico>>

SemItem == [quem |-> "ninguem", stage |-> "nenhum", progress |-> 0, n |-> 0]

\* the updates of a list of progress values, all produced by one side
Producoes(quem, stage, valores) ==
    [k \in 1..Len(valores) |-> [quem |-> quem, stage |-> stage, progress |-> valores[k]]]

\* the last update that process_transcription_async sends: "done" once the
\* record of the history is stored, "error" from the except branch
ProducaoFinal ==
    IF RegistroAceito(CamposPassados)
    THEN Producoes("loop", "done", <<100>>)
    ELSE Producoes("loop", "error", <<0>>)

\* the updates of one run of process_transcription_async in the order in which
\* they are produced: the event loop sends its own with notify_status_update,
\* the worker thread of _run puts its own on _status_queue
RoteiroDe(loop, traduz, spellbook) ==
    Producoes("loop", "processing", <<10, 20>>)
        \o Producoes("thread", "transcribing", RelatosDoRun(loop, traduz, FALSE, FALSE))
        \o Producoes("loop", "processing", <<60>>)
        \o (IF traduz THEN Producoes("loop", "processing", <<62>>) ELSE <<>>)
        \o Producoes("loop", "processing", <<65>>)
        \o Producoes("thread", "generating",
                     IF spellbook THEN RelatosAteSpellbook \o <<90>>
                     ELSE RelatosAteSpellbook \o RelatosAteHuggingFace \o <<80, 92>>)
        \o Producoes("loop", "processing", <<95>>)
        \o ProducaoFinal

Roteiros == { RoteiroDe(l, t, s) : l, t, s \in BOOLEAN }

InitFila ==
    /\ roteiro \in Roteiros
    /\ fl_pos = 1
    /\ fila = <<>>
    /\ fl_item = SemItem
    /\ recebidos = <<>>
    /\ NucleoParado /\ ProgressoParado /\ ManagerParado /\ HistoricoParado

Numerada(k) == [quem |-> roteiro[k].quem, stage |-> roteiro[k].stage,
                progress |-> roteiro[k].progress, n |-> k]

\* await websocket_manager.notify_status_update(...) in the coroutine of the
\* request: send_to_request sends to the subscribed client at once
NotificarDireto ==
    /\ fl_pos <= Len(roteiro)
    /\ roteiro[fl_pos].quem = "loop"
    /\ recebidos' = Append(recebidos, Numerada(fl_pos))
    /\ fl_pos' = fl_pos + 1
    /\ UNCHANGED <<roteiro, fila, fl_item>>
    /\ UNCHANGED foraDaFila

\* notify_status_from_thread in the worker thread: _status_queue.put_nowait
NotifyStatusFromThread ==
    /\ fl_pos <= Len(roteiro)
    /\ roteiro[fl_pos].quem = "thread"
    /\ fila' = Append(fila, Numerada(fl_pos))
    /\ fl_pos' = fl_pos + 1
    /\ UNCHANGED <<roteiro, fl_item, recebidos>>
    /\ UNCHANGED foraDaFila

\* _process_status_queue: item = await asyncio.to_thread(_get_from_queue)
PegarDaFila ==
    /\ fl_item = SemItem
    /\ fila # <<>>
    /\ fl_item' = Head(fila)
    /\ fila' = Tail(fila)
    /\ UNCHANGED <<roteiro, fl_pos, recebidos>>
    /\ UNCHANGED foraDaFila

\* _process_status_queue: await websocket_manager.notify_status_update(...)
EntregarDaFila ==
    /\ fl_item # SemItem
    /\ recebidos' = Append(recebidos, fl_item)
    /\ fl_item' = SemItem
    /\ UNCHANGED <<roteiro, fl_pos, fila>>
    /\ UNCHANGED foraDaFila

NextFila ==
    \/ NotificarDireto
    \/ NotifyStatusFromThread
    \/ PegarDaFila
    \/ EntregarDaFila

SpecFila == InitFila /\ [][NextFila]_vars

\* C27 as stated: the subscribed client receives the status updates of the
\* request in the order in which they were produced, and after the "done" or
\* "error" update it receives no further status_update of the request.
C27_Original ==
    /\ \A i, j \in 1..Len(recebidos) : i < j => recebidos[i].n < recebidos[j].n
    /\ \A i, j \in 1..Len(recebidos) :
        (i < j /\ recebidos[i].stage \in {"done", "error"})
            => recebidos[j].stage \in {"done", "error"}

-----------------------------------------------------------------------------
(* The WebSocketManager: websocket/manager.py *)

\* how many send_to_request and broadcast calls one behaviour makes
MaxEnvios == 2

Sockets == {"w1", "w2", "w3"}

RequestIds == {"r1", "r2"}

foraDoManager == <<varsNucleo, varsProgresso, varsFila, varsHistorico>>

InitManager ==
    /\ all_connections = {}
    /\ connections_by_request = <<>>
    /\ client_state = [w \in Sockets |-> "CONNECTING"]
    /\ ws_pc = "ocioso"
    /\ ws_pendentes = {}
    /\ ws_snapshot = {}
    /\ disconnected = {}
    /\ recebidas = [w \in Sockets |-> {}]
    /\ ws_msg = 0
    /\ desligados = {}
    /\ NucleoParado /\ ProgressoParado /\ FilaParada /\ HistoricoParado

\* the keys of _connections_by_request
Chaves(porRequest) == DOMAIN porRequest

\* the sockets registered under some request_id
Registrados(porRequest) == UNION { porRequest[r] : r \in Chaves(porRequest) }

\* _connections_by_request after connect(websocket, request_id)
AposConnect(porRequest, w, r) ==
    [k \in Chaves(porRequest) \cup {r} |->
        IF k = r
        THEN (IF r \in Chaves(porRequest) THEN porRequest[r] ELSE {}) \cup {w}
        ELSE porRequest[k]]

\* _connections_by_request after disconnect(websocket), were the emptied sets kept
AposDisconnectSemApagar(porRequest, w) ==
    [k \in Chaves(porRequest) |-> porRequest[k] \ {w}]

\* _connections_by_request after disconnect(websocket)
AposDisconnect(porRequest, w) ==
    [k \in { r \in Chaves(porRequest) : porRequest[r] \ {w} # {} } |-> porRequest[k] \ {w}]

RECURSIVE AposDisconnectDeTodos(_, _)
\* the loop "for ws in disconnected: self.disconnect(ws)"
AposDisconnectDeTodos(porRequest, ws) ==
    IF ws = {} THEN porRequest
    ELSE LET w == CHOOSE x \in ws : TRUE
         IN AposDisconnectDeTodos(AposDisconnect(porRequest, w), ws \ {w})

\* connect(websocket, request_id): websocket.accept() succeeds on a socket that
\* was not accepted before; request_id may be None
Connect(w) ==
    /\ client_state[w] = "CONNECTING"
    /\ client_state' = [client_state EXCEPT ![w] = "CONNECTED"]
    /\ all_connections' = all_connections \cup {w}
    /\ \E r \in RequestIds \cup {"None"} :
        connections_by_request' =
            IF r = "None" THEN connections_by_request
            ELSE AposConnect(connections_by_request, w, r)
    /\ desligados' = desligados \ {w}
    /\ UNCHANGED <<ws_pc, ws_pendentes, ws_snapshot, disconnected, recebidas, ws_msg>>
    /\ UNCHANGED foraDoManager

\* the peer closes the connection
FecharCliente(w) ==
    /\ client_state[w] = "CONNECTED"
    /\ client_state' = [client_state EXCEPT ![w] = "DISCONNECTED"]
    /\ UNCHANGED <<all_connections, connections_by_request, ws_pc, ws_pendentes,
                   ws_snapshot, disconnected, recebidas, ws_msg, desligados>>
    /\ UNCHANGED foraDoManager

\* disconnect(websocket), for any socket
Disconnect(w) ==
    /\ all_connections' = all_connections \ {w}
    /\ connections_by_request' = AposDisconnect(connections_by_request, w)
    /\ desligados' = desligados \cup {w}
    /\ UNCHANGED <<client_state, ws_pc, ws_pendentes, ws_snapshot, disconnected,
                   recebidas, ws_msg>>
    /\ UNCHANGED foraDoManager

\* send_to_request(request_id, message) up to the loop: returns at once for a
\* request_id without connections, else copies the set of the request
IniciarSendToRequest(r) ==
    /\ ws_pc \in {"ocioso", "concluido"}
    /\ ws_msg < MaxEnvios
    /\ ws_msg' = ws_msg + 1
    /\ disconnected' = {}
    /\ IF r \in Chaves(connections_by_request)
       THEN /\ ws_snapshot' = connections_by_request[r]
            /\ ws_pendentes' = connections_by_request[r]
            /\ ws_pc' = "enviando"
       ELSE /\ ws_snapshot' = {}
            /\ ws_pendentes' = {}
            /\ ws_pc' = "concluido"
    /\ UNCHANGED <<all_connections, connections_by_request, client_state, recebidas,
                   desligados>>
    /\ UNCHANGED foraDoManager

\* broadcast(message) up to the loop
IniciarBroadcast ==
    /\ ws_pc \in {"ocioso", "concluido"}
    /\ ws_msg < MaxEnvios
    /\ ws_msg' = ws_msg + 1
    /\ disconnected' = {}
    /\ ws_snapshot' = all_connections
    /\ ws_pendentes' = all_connections
    /\ ws_pc' = IF all_connections = {} THEN "concluido" ELSE "enviando"
    /\ UNCHANGED <<all_connections, connections_by_request, client_state, recebidas,
                   desligados>>
    /\ UNCHANGED foraDoManager

\* one round of the loop: the socket is skipped when it is not CONNECTED, else
\* await websocket.send_json(message) sends or raises
EnviarAUm(w) ==
    /\ ws_pc = "enviando"
    /\ w \in ws_pendentes
    /\ ws_pendentes' = ws_pendentes \ {w}
    /\ \E enviou \in BOOLEAN :
        IF client_state[w] = "CONNECTED" /\ enviou
        THEN /\ recebidas' = [recebidas EXCEPT ![w] = @ \cup {ws_msg}]
             /\ UNCHANGED disconnected
        ELSE /\ disconnected' = disconnected \cup {w}
             /\ UNCHANGED recebidas
    /\ UNCHANGED <<all_connections, connections_by_request, client_state, ws_pc,
                   ws_snapshot, ws_msg, desligados>>
    /\ UNCHANGED foraDoManager

\* after the loop: for ws in disconnected: self.disconnect(ws)
RemoverDesconectados ==
    /\ ws_pc = "enviando"
    /\ ws_pendentes = {}
    /\ all_connections' = all_connections \ disconnected
    /\ connections_by_request' = AposDisconnectDeTodos(connections_by_request, disconnected)
    /\ ws_pc' = "concluido"
    /\ desligados' = desligados \cup disconnected
    /\ UNCHANGED <<client_state, ws_pendentes, ws_snapshot, disconnected, recebidas,
                   ws_msg>>
    /\ UNCHANGED foraDoManager

NextManager ==
    \/ \E w \in Sockets : Connect(w)
    \/ \E w \in Sockets : FecharCliente(w)
    \/ \E w \in Sockets : Disconnect(w)
    \/ \E r \in RequestIds : IniciarSendToRequest(r)
    \/ IniciarBroadcast
    \/ \E w \in Sockets : EnviarAUm(w)
    \/ RemoverDesconectados

SpecManager == InitManager /\ [][NextManager]_vars

\* C28: at every point of any sequence of connect, disconnect, send_to_request
\* and broadcast calls, every socket registered under a request_id is in the
\* set of all connections, no request_id maps to an empty set and a socket
\* that was disconnected is in neither structure; and when a
\* send_to_request or broadcast call has returned, every socket that it found
\* not CONNECTED or whose send failed is in neither structure, and every other
\* socket of the call has received the message.
C28_ManagerStructures ==
    /\ Registrados(connections_by_request) \subseteq all_connections
    /\ \A r \in Chaves(connections_by_request) : connections_by_request[r] # {}
    /\ desligados \cap (all_connections \cup Registrados(connections_by_request)) = {}
    /\ ws_pc = "concluido" =>
        /\ disconnected \cap (all_connections \cup Registrados(connections_by_request)) = {}
        /\ \A w \in ws_snapshot \ disconnected : ws_msg \in recebidas[w]

\* a call has returned after one socket failed, the last of its request_id,
\* and another socket of the call received the message
C28_Witness ==
    /\ ws_pc = "concluido"
    /\ disconnected # {}
    /\ ws_snapshot \ disconnected # {}
    /\ Chaves(connections_by_request) # RequestIds
    /\ \E w \in Sockets : client_state[w] = "DISCONNECTED" /\ w \notin disconnected
    /\ desligados \ disconnected # {}

-----------------------------------------------------------------------------
(* Further properties of the request: the translation step *)

\* the translation step of the request has returned and the request goes on
AposATraducao == rpc \in {"topicos", "salvar", "persistir"}

\* C29 as stated: once the request is past the translation step, translated is
\* true only if the detected language is not pt/pt-br, the text submitted for
\* translation is not empty and the Portuguese transcript differs from it; in
\* every other case translated is false and the transcript is the decoded text.
C29_Original ==
    AposATraducao =>
        /\ translated =>
            /\ ForaDoPortugues(transcription_result.language)
            /\ TextoATraduzir(transcription_result) # <<>>
            /\ transcript_pt # TextoATraduzir(transcription_result)
        /\ ~translated => transcript_pt = transcription_result.text

-----------------------------------------------------------------------------
(* The history of transcriptions: models/history_store.py HistoryStore, as
   the requests use it, each through an instance of its own on the same
   history.json *)

\* how many add, delete and error-update calls one behaviour makes
MaxOperacoes == 4

\* the values of created_at, in the order of their strings
MaxInstante == 3

IdsDeRequisicao == {"a", "b"}

Instantes == 1..MaxInstante

\* the records a request may add: TranscriptionRecord(id, created_at, status)
RegistrosPossiveis ==
    [id : IdsDeRequisicao, created_at : Instantes, status : {"processing", "done"}]

SemRegistro == [id |-> "nenhum", created_at |-> 0, status |-> "nenhum"]

foraDoHistorico == <<varsNucleo, varsProgresso, varsFila, varsManager>>

InitHistorico ==
    /\ hs_arquivo = <<>>
    /\ hs_ultima = [i \in IdsDeRequisicao |-> SemRegistro]
    /\ hs_log = <<>>
    /\ NucleoParado /\ ProgressoParado /\ FilaParada /\ ManagerParado

\* the list without filtering
TodosOsRegistros(records, id) == records

\* records = [r for r in records if r.id != record.id]
SemOMesmoId(records, id) == SelectSeq(records, LAMBDA r : r.id # id)

\* one record put into a list that is in descending order, after the records
\* that are not older than it
InserirDesc(records, r) ==
    LET antes == SelectSeq(records, LAMBDA x : x.created_at >= r.created_at)
        depois == SelectSeq(records, LAMBDA x : x.created_at < r.created_at)
    IN antes \o <<r>> \o depois

RECURSIVE OrdenarDesc(_)
\* records.sort(key=lambda r: r.created_at, reverse=True): a stable sort
OrdenarDesc(records) ==
    IF records = <<>> THEN <<>>
    ELSE InserirDesc(OrdenarDesc(SubSeq(records, 1, Len(records) - 1)),
                     records[Len(records)])

\* what add(record) saves, for the list that _load returned
AposAdd(records, record) == OrdenarDesc(Append(SemOMesmoId(records, record.id), record))

\* get(record_id): the first record of the id, if any
Get(records, id) ==
    LET achados == SelectSeq(records, LAMBDA r : r.id = id)
    IN IF achados = <<>> THEN SemRegistro ELSE achados[1]

\* store.add(record) of one request: between _load and _save the coroutine of
\* the request does not await, so no other call of the event loop runs
Add(record) ==
    /\ Len(hs_log) < MaxOperacoes
    /\ hs_arquivo' = AposAdd(hs_arquivo, record)
    /\ hs_ultima' = [hs_ultima EXCEPT ![record.id] = record]
    /\ hs_log' = Append(hs_log, [op |-> "add", id |-> record.id])
    /\ UNCHANGED foraDoHistorico

\* store.delete(record_id): saves only when a record was removed
Delete(id) ==
    /\ Len(hs_log) < MaxOperacoes
    /\ hs_arquivo' = IF Get(hs_arquivo, id) # SemRegistro
                     THEN SemOMesmoId(hs_arquivo, id)
                     ELSE hs_arquivo
    /\ hs_ultima' = [hs_ultima EXCEPT ![id] = SemRegistro]
    /\ hs_log' = Append(hs_log, [op |-> "delete", id |-> id])
    /\ UNCHANGED foraDoHistorico

\* the except branch of a request: existing = store.get(request_id), and if
\* there is one, existing.status = "error" and store.add(existing)
MarcarErro(id) ==
    /\ Len(hs_log) < MaxOperacoes
    /\ Get(hs_arquivo, id) # SemRegistro
    /\ LET existing == [Get(hs_arquivo, id) EXCEPT !.status = "error"]
       IN /\ hs_arquivo' = AposAdd(hs_arquivo, existing)
          /\ hs_ultima' = [hs_ultima EXCEPT ![id] = existing]
    /\ hs_log' = Append(hs_log, [op |-> "error", id |-> id])
    /\ UNCHANGED foraDoHistorico

NextHistorico ==
    \/ \E record \in RegistrosPossiveis : Add(record)
    \/ \E id \in IdsDeRequisicao : Delete(id)
    \/ \E id \in IdsDeRequisicao : MarcarErro(id)

SpecHistorico == InitHistorico /\ [][NextHistorico]_vars

\* the records of history.json with the id
RegistrosDoId(id) == SelectSeq(hs_arquivo, LAMBDA r : r.id = id)

\* C30: after any sequence of add and delete calls of requests that share
\* history.json through instances of their own, the history holds at most one
\* record per id; the record of an id is the one of the last add of that id,
\* whatever was added or deleted for other ids since, and there is none when a
\* delete of the id came last; and the records are in descending order of
\* created_at.
C30_HistoryConsistent ==
    /\ \A id \in IdsDeRequisicao :
        IF hs_ultima[id] = SemRegistro
        THEN RegistrosDoId(id) = <<>>
        ELSE RegistrosDoId(id) = <<hs_ultima[id]>>
    /\ \A i, j \in 1..Len(hs_arquivo) :
        i < j => hs_arquivo[i].created_at >= hs_arquivo[j].created_at

\* an add of one request replaced its record, then the other request added an
\* older record and deleted it again: the first record is still there
C30_Witness ==
    /\ Len(hs_log) = 4
    /\ hs_log[1] = [op |-> "add", id |-> "a"]
    /\ hs_log[2] = [op |-> "add", id |-> "a"]
    /\ hs_log[3] = [op |-> "add", id |-> "b"]
    /\ hs_log[4] = [op |-> "delete", id |-> "b"]
    /\ hs_arquivo = <<[id |-> "a", created_at |-> 2, status |-> "done"]>>

=============================================================================
